---------------------------- MODULE Spec2Model ----------------------------
(***************************************************************************)
(* Model of the batch automation of ridwanzune/autoserverless:             *)
(*   - the serverless handler (api/automate): two-phase orchestration,    *)
(*     task list, Used-Link Set and the newline-delimited progress stream; *)
(*   - the browser client that reads that stream and mirrors the tasks.    *)
(***************************************************************************)
EXTENDS Integers, Sequences, FiniteSets

(***************************************************************************)
(* Bounds of the model.                                                    *)
(***************************************************************************)
NumCategories == 2
MaxLinks == 3
MaxArticles == 2
MaxLines == 2
MaxMerged == 3
MaxWords == 3
MaxWideWords == 6
MaxLineLen == 3
MaxPhraseLen == 2
NumAppCategories == 3
MaxAppArticles == 1
MaxResponseLines == 5
MaxImageSide == 10
MaxDrawLines == 2

(***************************************************************************)
(* Configuration and value universes.                                      *)
(***************************************************************************)
CategoryKeys == <<"top", "business", "sports", "technology", "entertainment">>

NEWS_CATEGORIES ==
  [i \in 1..NumCategories |-> [apiValue |-> CategoryKeys[i], name |-> CategoryKeys[i]]]

LinkNames == <<"link1", "link2", "link3", "link4">>

Links == {LinkNames[i] : i \in 1..MaxLinks}

\* The articles the news provider can return: one per link; the first one
\* carries no image reference ("" stands for a missing, falsy image_url).
ArticleOf(link) ==
  [link |-> link, image_url |-> IF link = LinkNames[1] THEN "" ELSE "img"]

Articles == {ArticleOf(link) : link \in Links}

RECURSIVE SeqsUpTo(_, _)
SeqsUpTo(S, n) ==
  IF n = 0 THEN {<<>>}
  ELSE LET shorter == SeqsUpTo(S, n - 1)
       IN shorter \cup {Append(s, x) : s \in {t \in shorter : Len(t) = n - 1}, x \in S}

ArticleLists == SeqsUpTo(Articles, MaxArticles)

TaskStatus ==
  [PENDING |-> "PENDING", GATHERING |-> "GATHERING", GATHERED |-> "GATHERED",
   PROCESSING |-> "PROCESSING", GENERATING_IMAGE |-> "GENERATING_IMAGE",
   COMPOSING |-> "COMPOSING", UPLOADING |-> "UPLOADING",
   SENDING_WEBHOOK |-> "SENDING_WEBHOOK", DONE |-> "DONE", ERROR |-> "ERROR"]

\* The analysis derived for the article with the given link.
AnalysisOf(link) ==
  [headline |-> "headline", caption |-> "caption", imagePrompt |-> "prompt",
   sourceName |-> "source"]

(***************************************************************************)
(* Text, bytes and JSON.  A text is a sequence of characters; a character  *)
(* is a record [k, v]: a brace, a line feed, a space, or one member        *)
(* "key":value of a JSON object (k the key, v the value's strings).  A     *)
(* byte is a record [t, c]: the whole of a one-byte character, or the lead *)
(* or continuation byte of a two-byte character.                           *)
(***************************************************************************)
LB == [k |-> "{", v |-> <<>>]
RB == [k |-> "}", v |-> <<>>]
NL == [k |-> "\n", v |-> <<>>]
SP == [k |-> " ", v |-> <<>>]
FFFD == [k |-> "\\uFFFD", v |-> <<>>]

MemberKeys == {"id", "categoryName", "status", "error", "result"}

Member(key, val) == [k |-> key, v |-> val]

\* Characters outside ASCII occur in the generated headline and caption.
MultiByte(c) == c.k = "result"

\* F(e), with e evaluated once before F is applied to its value.
Apply(F(_), e) == CHOOSE r \in {F(v) : v \in {e}} : TRUE

ResultValue(r) == <<r.headline, r.imageUrl, r.caption, r.sourceUrl, r.sourceName>>

\* Mutant: the error member is left out of the serialized record.
StringifyWithoutError(task) ==
  LET has(key) == key \in DOMAIN task
  IN <<LB, Member("id", <<task.id>>), Member("categoryName", <<task.categoryName>>),
       Member("status", <<task.status>>)>>
     \o (IF has("result") THEN <<Member("result", ResultValue(task.result))>> ELSE <<>>)
     \o <<RB>>

\* JSON.stringify(task): the members the record holds, in insertion order.
Stringify(task) ==
  LET has(key) == key \in DOMAIN task
  IN <<LB, Member("id", <<task.id>>), Member("categoryName", <<task.categoryName>>),
       Member("status", <<task.status>>)>>
     \o (IF has("error") THEN <<Member("error", <<task.error>>)>> ELSE <<>>)
     \o (IF has("result") THEN <<Member("result", ResultValue(task.result))>> ELSE <<>>)
     \o <<RB>>

\* TextEncoder.encode: UTF-8.
EncodeChar(c) ==
  IF MultiByte(c) THEN <<[t |-> "lead", c |-> c], [t |-> "cont", c |-> c]>>
  ELSE <<[t |-> "one", c |-> c]>>

RECURSIVE TextEncode(_)
TextEncode(text) ==
  IF text = <<>> THEN <<>> ELSE EncodeChar(Head(text)) \o TextEncode(Tail(text))

\* TextDecoder.decode(value, {stream: true}): an incomplete character at the
\* end of a chunk is held back (pending) for the next call.
RECURSIVE DecodeStep(_, _, _)
DecodeStep(pending, bytes, out) ==
  IF bytes = <<>> THEN [chars |-> out, pending |-> pending]
  ELSE LET b == Head(bytes)
       IN IF pending # <<>>
          THEN IF b.t = "cont" /\ b.c = pending[1].c
               THEN DecodeStep(<<>>, Tail(bytes), Append(out, b.c))
               ELSE DecodeStep(<<>>, bytes, Append(out, FFFD))
          ELSE IF b.t = "one" THEN DecodeStep(<<>>, Tail(bytes), Append(out, b.c))
          ELSE IF b.t = "lead" THEN DecodeStep(<<b>>, Tail(bytes), out)
          ELSE DecodeStep(<<>>, Tail(bytes), Append(out, FFFD))

StreamDecode(pending, bytes) == DecodeStep(pending, bytes, <<>>)

\* String.prototype.split('\n'): n separators give n + 1 pieces.
RECURSIVE SplitStep(_, _, _)
SplitStep(text, cur, out) ==
  IF text = <<>> THEN Append(out, cur)
  ELSE IF Head(text) = NL THEN SplitStep(Tail(text), <<>>, Append(out, cur))
  ELSE SplitStep(Tail(text), Append(cur, Head(text)), out)

Split(text) == SplitStep(text, <<>>, <<>>)

IsSpace(c) == c = SP

RECURSIVE TrimLeft(_)
TrimLeft(text) ==
  IF text # <<>> /\ IsSpace(Head(text)) THEN TrimLeft(Tail(text)) ELSE text

RECURSIVE TrimRight(_)
TrimRight(text) ==
  IF text # <<>> /\ IsSpace(text[Len(text)])
  THEN TrimRight(SubSeq(text, 1, Len(text) - 1)) ELSE text

\* String.prototype.trim
Trim(text) == TrimRight(TrimLeft(text))

MemberValue(c) ==
  IF c.k = "result"
  THEN [headline |-> c.v[1], imageUrl |-> c.v[2], caption |-> c.v[3],
        sourceUrl |-> c.v[4], sourceName |-> c.v[5]]
  ELSE c.v[1]

\* JSON.parse: an object text is "{", members, "}", with white space allowed
\* around it (of a repeated key the last member counts); anything else throws.
JSONParse(text) ==
  LET t == Trim(text)
      n == Len(t)
      wellFormed ==
        /\ n >= 2
        /\ t[1] = LB
        /\ t[n] = RB
        /\ \A i \in 2..(n - 1) : t[i].k \in MemberKeys
      last(key) == CHOOSE i \in 2..(n - 1) :
                     /\ t[i].k = key
                     /\ \A j \in (i + 1)..(n - 1) : t[j].k # key
  IN IF wellFormed
     THEN [ok |-> TRUE,
           value |-> [key \in {t[i].k : i \in 2..(n - 1)} |->
                        MemberValue(t[last(key)])]]
     ELSE [ok |-> FALSE, value |-> [status |-> "SyntaxError"]]

(***************************************************************************)
(* State.                                                                  *)
(***************************************************************************)
VARIABLES
  \* the serverless handler (api/automate)
  pc,                \* where the handler's async start() is suspended
  tasks,             \* BatchTask[]
  stream,            \* the chunks enqueued on the response stream, in order
  closed,            \* controller.close() was called
  usedArticleLinks,  \* Set<string>
  collectedData,     \* CollectedData[]
  catIdx,            \* position of the Phase 1 loop in NEWS_CATEGORIES
  dataIdx,           \* position of the Phase 2 loop in collectedData
  allArticles,       \* result of the last article fetch
  unusedArticles,    \* its articles whose link is not used yet
  imageSrcToCompose, \* image source of the item in Phase 2
  imageUrl,          \* URL returned by the upload
  ownImageLoad,      \* per task id: how loading the article's own image went
  calls,             \* the calls of external collaborators so far, in order
  \* the browser client (App, handleStartAutomation)
  cpc,               \* where handleStartAutomation is suspended
  clientTasks,       \* the tasks state (useState)
  completedCount,    \* the completedCount state
  isProcessing,      \* the isProcessing state
  wire,              \* bytes of the response body not yet read
  delivered,         \* bytes of the response body read so far
  decoderPending,    \* bytes the TextDecoder holds back between calls
  buffer,            \* the reader's buffer (text)
  lines,             \* lines of the current chunk still to be handled
  applied            \* the updates handed to setTasks so far, in order

VARIABLES
  \* the merge for the "Trending" category (legacy orchestrator)
  mergePc,           \* "input": results fetched; "done": the list was built
  fetchResults,      \* the arrays the concurrent fetches resolved with
  articlesFromAllCategories,
  uniqueArticles,
  trendingArticles   \* allArticles for the category 'top'

VARIABLES
  \* composeImage: fitting the headline (utils/canvas)
  fitPc,             \* "loop": in the while loop; "draw": after it
  headline,          \* the words of the headline (text.split(' '))
  fontSize,
  ctxFont,           \* the size of ctx.font, which measureText uses
  lineHeight,        \* in tenths of a pixel
  headlineLines      \* lines: the wrapped headline

VARIABLES
  \* the in-browser orchestrator (App.handleStartAutomation, two phases)
  fanOut             \* the concurrent fetches of the category 'top'

appVars == <<fanOut>>

VARIABLES
  \* the consumer of the handler's response stream
  cancelled          \* the stream was cancelled (the caller disconnected)

cancelVars == <<cancelled>>

VARIABLES
  \* parseAnalysisResponse (services/gemini)
  parsePc,           \* "lines": in lines.forEach; "returned"; "thrown"
  linesRead,         \* the lines handled so far
  analysis,          \* the Partial<NewsAnalysis> being filled
  isParsingCaption,
  captionLines,
  isParsingImagePrompt,
  imagePromptLines,
  parseResult        \* what findAndAnalyzeBestArticleFromList settles with

parseVars ==
  <<parsePc, linesRead, analysis, isParsingCaption, captionLines,
    isParsingImagePrompt, imagePromptLines, parseResult>>

fitVars == <<fitPc, headline, fontSize, ctxFont, lineHeight, headlineLines>>

VARIABLES
  \* composeImage as a whole (utils/canvas)
  composePc,         \* "loading", "loadFont", "encoding", "returned", "rejected"
  mainImage,         \* width and height of the main image
  wrappedLines,      \* lines: the wrapped headline, as texts
  highlightPhrases,
  imageLoads,        \* the three promises handed to Promise.all
  ops,               \* settled loads and calls on the context, in order
  sourceRect         \* sx, sy, sWidth, sHeight of the main image's drawImage

composeVars ==
  <<composePc, mainImage, wrappedLines, highlightPhrases, imageLoads, ops, sourceRect>>

VARIABLES
  \* drawHeadlineWithHighlights: the scan of one line for one phrase
  scanPc,            \* "scan": in the while loop; "done": after it
  lineText,
  phrase,
  startIndex,
  searchFromIndex,
  rects              \* the fillRect calls so far: start index and text covered

scanVars == <<scanPc, lineText, phrase, startIndex, searchFromIndex, rects>>

mergeVars ==
  <<mergePc, fetchResults, articlesFromAllCategories, uniqueArticles, trendingArticles>>

serverVars ==
  <<pc, tasks, stream, closed, usedArticleLinks, collectedData, catIdx, dataIdx,
    allArticles, unusedArticles, imageSrcToCompose, imageUrl, ownImageLoad, calls>>

clientVars ==
  <<cpc, clientTasks, completedCount, isProcessing, wire, delivered, decoderPending,
    buffer, lines, applied>>

vars ==
  <<serverVars, clientVars, mergeVars, fitVars, scanVars, appVars, cancelVars, parseVars,
    composeVars>>

TaskIds == {NEWS_CATEGORIES[i].apiValue : i \in 1..NumCategories}

(***************************************************************************)
(* The handler's helpers.                                                  *)
(***************************************************************************)
\* JSON.stringify(task) + '\n'
Line(task) == Append(Stringify(task), NL)

\* pushUpdate: controller.enqueue(encoder.encode(JSON.stringify(task) + '\n'))
PushUpdate(st, task) == Append(st, Apply(TextEncode, Apply(Line, task)))

\* Mutant: an id that is not found falls back to the first record.
FindIndexDefaultsToFirst(ts, taskId) ==
  IF \E i \in 1..Len(ts) : ts[i].id = taskId
  THEN CHOOSE i \in 1..Len(ts) :
         /\ ts[i].id = taskId
         /\ \A j \in 1..(i - 1) : ts[j].id # taskId
  ELSE IF ts = <<>> THEN -1 ELSE 1

\* Array.prototype.findIndex: the first index with that id, or -1.
FindIndex(ts, taskId) ==
  IF \E i \in 1..Len(ts) : ts[i].id = taskId
  THEN CHOOSE i \in 1..Len(ts) :
         /\ ts[i].id = taskId
         /\ \A j \in 1..(i - 1) : ts[j].id # taskId
  ELSE -1

\* { ...task, ...updates }
Spread(task, updates) ==
  [key \in DOMAIN task \cup DOMAIN updates |->
     IF key \in DOMAIN updates THEN updates[key] ELSE task[key]]

\* Mutant: the snapshot is pushed before the record is replaced.
UpdateTaskPushesOld(ts, st, taskId, updates) ==
  LET taskIndex == FindIndex(ts, taskId)
  IN IF taskIndex # -1
     THEN [tasks |-> [ts EXCEPT ![taskIndex] = Spread(ts[taskIndex], updates)],
           stream |-> PushUpdate(st, ts[taskIndex])]
     ELSE [tasks |-> ts, stream |-> st]

\* updateTask(taskId, updates): the task list and the stream after the call.
UpdateTask(ts, st, taskId, updates) ==
  LET taskIndex == FindIndex(ts, taskId)
  IN IF taskIndex # -1
     THEN LET merged == Spread(ts[taskIndex], updates)
          IN [tasks |-> [ts EXCEPT ![taskIndex] = merged],
              stream |-> PushUpdate(st, merged)]
     ELSE [tasks |-> ts, stream |-> st]

\* tasks.forEach(pushUpdate)
RECURSIVE PushAll(_, _)
PushAll(st, ts) ==
  IF ts = <<>> THEN st ELSE PushAll(PushUpdate(st, Head(ts)), Tail(ts))

InitialTasks ==
  [i \in 1..NumCategories |->
     [id |-> NEWS_CATEGORIES[i].apiValue,
      categoryName |-> NEWS_CATEGORIES[i].name,
      status |-> TaskStatus.PENDING]]

\* allArticles.filter(article => !usedArticleLinks.has(article.link))
RECURSIVE Filter(_, _)
Filter(articles, used) ==
  IF articles = <<>> THEN <<>>
  ELSE IF Head(articles).link \notin used
       THEN <<Head(articles)>> \o Filter(Tail(articles), used)
       ELSE Filter(Tail(articles), used)

\* Mutant: the filter on used links is left out.
UnusedArticlesUnfiltered(articles, used) == articles

UnusedArticles(articles, used) == Filter(articles, used)

(***************************************************************************)
(* The analysis collaborator (services/gemini).  The model's reply is      *)
(* abstracted to what the function reads from it: whether the call failed, *)
(* whether the text is empty or IRRELEVANT, the CHOSEN_ID it carries (if   *)
(* any) and whether the rest parses into a complete analysis.              *)
(***************************************************************************)
Responses ==
  {[kind |-> "apiError"], [kind |-> "empty"], [kind |-> "irrelevant"],
   [kind |-> "noChosenId"]}
  \cup [kind : {"answer"}, chosenId : 0..(MaxArticles + 1), parses : BOOLEAN]

FindAndAnalyzeBestArticleFromList(articles, response) ==
  IF response.kind \in {"apiError", "empty", "noChosenId"}
  THEN [kind |-> "throw"]
  ELSE IF response.kind = "irrelevant"
  THEN [kind |-> "null"]
  ELSE LET chosenId == response.chosenId
       IN IF ~(chosenId - 1 \in 0..(Len(articles) - 1))  \* articles[chosenId - 1] undefined
          THEN [kind |-> "throw"]
          ELSE IF ~response.parses
          THEN [kind |-> "throw"]
          ELSE [kind |-> "ok",
                analysis |-> AnalysisOf(articles[chosenId].link),
                article |-> articles[chosenId]]

(***************************************************************************)
(* The calls of external collaborators.  A call is recorded when the       *)
(* orchestrator invokes the collaborator and is pending until the promise  *)
(* it returned settles.                                                    *)
(***************************************************************************)
Issue(cs, fn, key) == Append(cs, [fn |-> fn, key |-> key, state |-> "pending"])

Settle(cs, fn, key, outcome) ==
  [i \in 1..Len(cs) |->
     IF cs[i].fn = fn /\ cs[i].key = key /\ cs[i].state = "pending"
     THEN [cs[i] EXCEPT !.state = outcome]
     ELSE cs[i]]

(***************************************************************************)
(* The handler, api/automate.  Each action is the code that runs between   *)
(* two suspension points (awaits) or around one updateTask call.           *)
(***************************************************************************)
Category == NEWS_CATEGORIES[catIdx]

\* Mutant: the catch blocks record the message but leave the status as it was.
ErrorUpdatesNoStatus(message) == [error |-> message]

ErrorUpdates(message) == [status |-> TaskStatus.ERROR, error |-> message]

\* The messages of the errors the handler itself throws in Phase 1 (template
\* literals: the fixed text around the category's name).
NoUnusedArticles(name) == <<"No new, unused articles found for ", name, ".">>

NoRelevantArticle(name) ==
  <<"Could not find a relevant, unused Bangladesh-specific article for ", name, ".">>

\* The block-scoped values of a loop iteration, gone when the iteration ends.
NoArticles == <<>>
NoImage == ""

HandlerInit ==
  /\ pc = "start"
  /\ tasks = <<>>
  /\ stream = <<>>
  /\ closed = FALSE
  /\ usedArticleLinks = {}
  /\ collectedData = <<>>
  /\ catIdx = 1
  /\ dataIdx = 1
  /\ allArticles = NoArticles
  /\ unusedArticles = NoArticles
  /\ imageSrcToCompose = NoImage
  /\ imageUrl = NoImage
  /\ ownImageLoad = [id \in TaskIds |-> "untried"]
  /\ calls = <<>>

gatherLocals == <<allArticles, unusedArticles>>
processLocals == <<imageSrcToCompose, imageUrl>>

\* start(controller): build the task list and send every PENDING snapshot.
Start ==
  /\ pc = "start"
  /\ tasks' = InitialTasks
  /\ stream' = PushAll(stream, InitialTasks)
  /\ pc' = "gather"
  /\ UNCHANGED <<closed, usedArticleLinks, collectedData, catIdx, dataIdx,
                 gatherLocals, processLocals, ownImageLoad,
                 calls>>

\* Phase 1, top of an iteration: GATHERING, then the fetch is issued.
GatherBegin ==
  /\ pc = "gather"
  /\ catIdx <= NumCategories
  /\ calls' = Issue(calls, "fetch", Category.apiValue)
  /\ LET u == UpdateTask(tasks, stream, Category.apiValue,
                         [status |-> TaskStatus.GATHERING])
     IN tasks' = u.tasks /\ stream' = u.stream
  /\ pc' = "awaitFetch"
  /\ UNCHANGED <<closed, usedArticleLinks, collectedData, catIdx, dataIdx,
                 gatherLocals, processLocals, ownImageLoad>>

\* The catch block of Phase 1: ERROR with the message, then the next category.
GatherCatch(message) ==
  /\ LET u == UpdateTask(tasks, stream, Category.apiValue, ErrorUpdates(message))
     IN tasks' = u.tasks /\ stream' = u.stream
  /\ catIdx' = catIdx + 1
  /\ allArticles' = NoArticles
  /\ unusedArticles' = NoArticles
  /\ pc' = "gather"

\* fetchLatestBangladeshiNews resolves.
FetchReturns(articles) ==
  /\ pc = "awaitFetch"
  /\ calls' = IF Len(UnusedArticles(articles, usedArticleLinks)) = 0
                THEN Settle(calls, "fetch", Category.apiValue, "resolved")
                ELSE Issue(Settle(calls, "fetch", Category.apiValue, "resolved"), "analysis", Category.apiValue)
  /\ IF Len(UnusedArticles(articles, usedArticleLinks)) = 0
     THEN GatherCatch(NoUnusedArticles(Category.name))
     ELSE /\ allArticles' = articles
          /\ unusedArticles' = UnusedArticles(articles, usedArticleLinks)
          /\ pc' = "awaitAnalysis"
          /\ UNCHANGED <<tasks, stream, catIdx>>
  /\ UNCHANGED <<closed, usedArticleLinks, collectedData, dataIdx, processLocals,
                 ownImageLoad>>

\* Mutant: a rejected fetch is tried a second time.
FetchThrowsRetrying ==
  /\ pc = "awaitFetch"
  /\ IF Len(SelectSeq(calls, LAMBDA c : c.fn = "fetch" /\ c.key = Category.apiValue)) < 2
     THEN /\ calls' = Issue(Settle(calls, "fetch", Category.apiValue, "rejected"),
                            "fetch", Category.apiValue)
          /\ UNCHANGED <<pc, tasks, stream, catIdx, allArticles, unusedArticles>>
     ELSE /\ calls' = Settle(calls, "fetch", Category.apiValue, "rejected")
          /\ GatherCatch(<<"Failed to fetch news">>)
  /\ UNCHANGED <<closed, usedArticleLinks, collectedData, dataIdx, processLocals,
                 ownImageLoad>>

\* fetchLatestBangladeshiNews rejects.
FetchThrows ==
  /\ pc = "awaitFetch"
  /\ calls' = Settle(calls, "fetch", Category.apiValue, "rejected")
  /\ GatherCatch(<<"Failed to fetch news">>)
  /\ UNCHANGED <<closed, usedArticleLinks, collectedData, dataIdx, processLocals,
                 ownImageLoad>>

\* Mutant: a null result is passed over without an ERROR update.
AnalysisReturnsNullIgnored(response) ==
  /\ pc = "awaitAnalysis"
  /\ calls' = Settle(calls, "analysis", Category.apiValue, "resolved")
  /\ LET result == FindAndAnalyzeBestArticleFromList(unusedArticles, response)
     IN /\ result.kind = "null"
        /\ catIdx' = catIdx + 1
        /\ allArticles' = NoArticles
        /\ unusedArticles' = NoArticles
        /\ pc' = "gather"
  /\ UNCHANGED <<tasks, stream, closed, usedArticleLinks, collectedData, dataIdx,
                 processLocals, ownImageLoad>>

\* findAndAnalyzeBestArticleFromList settles.
AnalysisReturns(response) ==
  /\ pc = "awaitAnalysis"
  /\ calls' = Settle(calls, "analysis", Category.apiValue,
                      IF FindAndAnalyzeBestArticleFromList(unusedArticles, response).kind
                           = "throw"
                      THEN "rejected" ELSE "resolved")
  /\ LET result == FindAndAnalyzeBestArticleFromList(unusedArticles, response)
     IN IF result.kind = "throw"
        THEN /\ GatherCatch(<<"Failed to analyze the news article">>)
             /\ UNCHANGED <<usedArticleLinks, collectedData>>
        ELSE IF result.kind = "null"
        THEN /\ GatherCatch(NoRelevantArticle(Category.name))
             /\ UNCHANGED <<usedArticleLinks, collectedData>>
        ELSE /\ usedArticleLinks' = usedArticleLinks \cup {result.article.link}
             /\ collectedData' = Append(collectedData,
                                        [taskId |-> Category.apiValue,
                                         analysis |-> result.analysis,
                                         article |-> result.article])
             /\ LET u == UpdateTask(tasks, stream, Category.apiValue,
                                    [status |-> TaskStatus.GATHERED])
                IN tasks' = u.tasks /\ stream' = u.stream
             /\ pc' = "awaitDelay"
             /\ UNCHANGED <<catIdx, gatherLocals>>
  /\ UNCHANGED <<closed, dataIdx, processLocals, ownImageLoad>>

\* Mutant: the set of used links is emptied when the iteration ends.
DelayElapsesForgetting ==
  /\ pc = "awaitDelay"
  /\ catIdx' = catIdx + 1
  /\ allArticles' = NoArticles
  /\ unusedArticles' = NoArticles
  /\ usedArticleLinks' = {}
  /\ pc' = "gather"
  /\ UNCHANGED <<tasks, stream, closed, collectedData, dataIdx,
                 processLocals, ownImageLoad,
                 calls>>

\* The API_FETCH_DELAY_MS timer fires: the iteration ends.
DelayElapses ==
  /\ pc = "awaitDelay"
  /\ catIdx' = catIdx + 1
  /\ allArticles' = NoArticles
  /\ unusedArticles' = NoArticles
  /\ pc' = "gather"
  /\ UNCHANGED <<tasks, stream, closed, usedArticleLinks, collectedData, dataIdx,
                 processLocals, ownImageLoad,
                 calls>>

\* Mutant: the Phase 1 loop is left before its last category.
GatherEndEarly ==
  /\ pc = "gather"
  /\ catIdx >= NumCategories
  /\ pc' = "process"
  /\ UNCHANGED <<tasks, stream, closed, usedArticleLinks, collectedData, catIdx,
                 dataIdx, allArticles, unusedArticles, imageSrcToCompose, imageUrl,
                 ownImageLoad, calls>>

\* The Phase 1 loop ends; Phase 2 starts on collectedData.
GatherEnd ==
  /\ pc = "gather"
  /\ catIdx > NumCategories
  /\ pc' = "process"
  /\ UNCHANGED <<tasks, stream, closed, usedArticleLinks, collectedData, catIdx,
                 dataIdx, gatherLocals, processLocals, ownImageLoad,
                 calls>>

Data == collectedData[dataIdx]

\* Mutant: after the ERROR update the same item is taken up again.
ProcessCatchRetry(message) ==
  /\ LET u == UpdateTask(tasks, stream, collectedData[dataIdx].taskId, ErrorUpdates(message))
     IN tasks' = u.tasks /\ stream' = u.stream
  /\ dataIdx' = dataIdx
  /\ imageSrcToCompose' = NoImage
  /\ imageUrl' = NoImage
  /\ pc' = "process"

\* The catch block of Phase 2: ERROR with the message, then the next item.
ProcessCatch(message) ==
  /\ LET u == UpdateTask(tasks, stream, Data.taskId, ErrorUpdates(message))
     IN tasks' = u.tasks /\ stream' = u.stream
  /\ dataIdx' = dataIdx + 1
  /\ imageSrcToCompose' = NoImage
  /\ imageUrl' = NoImage
  /\ pc' = "process"

\* Mutant: the iteration starts without the PROCESSING update.
ProcessBeginSilent ==
  /\ pc = "process"
  /\ dataIdx <= Len(collectedData)
  /\ pc' = "acquire"
  /\ UNCHANGED <<tasks, stream, closed, usedArticleLinks, collectedData, catIdx,
                 dataIdx, allArticles, unusedArticles, imageSrcToCompose, imageUrl,
                 ownImageLoad,
                 calls>>

\* Phase 2, top of an iteration: PROCESSING.
ProcessBegin ==
  /\ pc = "process"
  /\ dataIdx <= Len(collectedData)
  /\ LET u == UpdateTask(tasks, stream, Data.taskId, [status |-> TaskStatus.PROCESSING])
     IN tasks' = u.tasks /\ stream' = u.stream
  /\ pc' = "acquire"
  /\ UNCHANGED <<closed, usedArticleLinks, collectedData, catIdx, dataIdx,
                 gatherLocals, processLocals, ownImageLoad,
                 calls>>

\* The inner try: an article without image_url throws, the inner catch sets
\* GENERATING_IMAGE and asks for a generated image; otherwise the article's
\* image_url itself becomes the source (it is not loaded here).
AcquireImage ==
  /\ pc = "acquire"
  /\ calls' = IF Data.article.image_url = ""
                THEN Issue(calls, "generate", Data.taskId) ELSE calls
  /\ IF Data.article.image_url = ""
     THEN /\ LET u == UpdateTask(tasks, stream, Data.taskId,
                                 [status |-> TaskStatus.GENERATING_IMAGE])
             IN tasks' = u.tasks /\ stream' = u.stream
          /\ ownImageLoad' = [ownImageLoad EXCEPT ![Data.taskId] = "missing"]
          /\ pc' = "awaitGenerate"
          /\ UNCHANGED imageSrcToCompose
     ELSE /\ imageSrcToCompose' = Data.article.image_url
          /\ pc' = "compose"
          /\ UNCHANGED <<tasks, stream, ownImageLoad>>
  /\ UNCHANGED <<closed, usedArticleLinks, collectedData, catIdx, dataIdx,
                 gatherLocals, imageUrl>>

\* generateImageFromPrompt resolves.
GenerateReturns ==
  /\ pc = "awaitGenerate"
  /\ calls' = Settle(calls, "generate", Data.taskId, "resolved")
  /\ imageSrcToCompose' = "generated"
  /\ pc' = "compose"
  /\ UNCHANGED <<tasks, stream, closed, usedArticleLinks, collectedData, catIdx,
                 dataIdx, gatherLocals, imageUrl, ownImageLoad>>

\* generateImageFromPrompt rejects.
GenerateThrows ==
  /\ pc = "awaitGenerate"
  /\ calls' = Settle(calls, "generate", Data.taskId, "rejected")
  /\ ProcessCatch(<<"Failed to generate image">>)
  /\ UNCHANGED <<closed, usedArticleLinks, collectedData, catIdx, gatherLocals,
                 ownImageLoad>>

\* COMPOSING, then composeImage is called with the source string.
ComposeBegin ==
  /\ pc = "compose"
  /\ calls' = Issue(calls, "compose", Data.taskId)
  /\ LET u == UpdateTask(tasks, stream, Data.taskId, [status |-> TaskStatus.COMPOSING])
     IN tasks' = u.tasks /\ stream' = u.stream
  /\ pc' = "awaitCompose"
  /\ UNCHANGED <<closed, usedArticleLinks, collectedData, catIdx, dataIdx,
                 gatherLocals, processLocals, ownImageLoad>>

\* composeImage settles.  It loads the main image, the overlay and the logo
\* (Promise.all) and the fonts; it rejects when any of them fails to load.
ComposeReturns(mainLoads, assetsLoad) ==
  /\ pc = "awaitCompose"
  /\ calls' = IF mainLoads /\ assetsLoad
                THEN Issue(Settle(calls, "compose", Data.taskId, "resolved"), "upload", Data.taskId)
                ELSE Settle(calls, "compose", Data.taskId, "rejected")
  /\ ownImageLoad' =
       IF imageSrcToCompose = Data.article.image_url
       THEN [ownImageLoad EXCEPT ![Data.taskId] = IF mainLoads THEN "loaded" ELSE "failed"]
       ELSE ownImageLoad
  /\ IF mainLoads /\ assetsLoad
     THEN /\ LET u == UpdateTask(tasks, stream, Data.taskId,
                                 [status |-> TaskStatus.UPLOADING])
             IN tasks' = u.tasks /\ stream' = u.stream
          /\ pc' = "awaitUpload"
          /\ UNCHANGED <<dataIdx, processLocals>>
     ELSE ProcessCatch(<<"Failed to compose image">>)
  /\ UNCHANGED <<closed, usedArticleLinks, collectedData, catIdx, gatherLocals>>

\* Mutant: the webhook is called but not awaited; the item is finished at once.
UploadReturnsWebhookNotAwaited(url) ==
  /\ pc = "awaitUpload"
  /\ calls' = Issue(Settle(calls, "upload", Data.taskId, "resolved"), "webhook", Data.taskId)
  /\ LET u == UpdateTask(tasks, stream, Data.taskId, [status |-> TaskStatus.ERROR])
     IN tasks' = u.tasks /\ stream' = u.stream
  /\ dataIdx' = dataIdx + 1
  /\ imageSrcToCompose' = NoImage
  /\ imageUrl' = NoImage
  /\ pc' = "process"
  /\ UNCHANGED <<closed, usedArticleLinks, collectedData, catIdx, allArticles,
                 unusedArticles, ownImageLoad>>

\* uploadToCloudinary resolves: SENDING_WEBHOOK, then the webhook is called.
UploadReturns(url) ==
  /\ pc = "awaitUpload"
  /\ calls' = Issue(Settle(calls, "upload", Data.taskId, "resolved"), "webhook", Data.taskId)
  /\ imageUrl' = url
  /\ LET u == UpdateTask(tasks, stream, Data.taskId,
                         [status |-> TaskStatus.SENDING_WEBHOOK])
     IN tasks' = u.tasks /\ stream' = u.stream
  /\ pc' = "awaitWebhook"
  /\ UNCHANGED <<closed, usedArticleLinks, collectedData, catIdx, dataIdx,
                 gatherLocals, imageSrcToCompose, ownImageLoad>>

\* uploadToCloudinary rejects.
UploadThrows ==
  /\ pc = "awaitUpload"
  /\ calls' = Settle(calls, "upload", Data.taskId, "rejected")
  /\ ProcessCatch(<<"Failed to upload image">>)
  /\ UNCHANGED <<closed, usedArticleLinks, collectedData, catIdx, gatherLocals,
                 ownImageLoad>>

DoneUpdates ==
  [status |-> TaskStatus.DONE,
   result |-> [headline |-> Data.analysis.headline,
               imageUrl |-> imageUrl,
               caption |-> Data.analysis.caption,
               sourceUrl |-> Data.article.link,
               sourceName |-> Data.analysis.sourceName]]

\* sendToMakeWebhook resolves: DONE with the result, then the next item.
WebhookReturns ==
  /\ pc = "awaitWebhook"
  /\ calls' = Settle(calls, "webhook", Data.taskId, "resolved")
  /\ LET u == UpdateTask(tasks, stream, Data.taskId, DoneUpdates)
     IN tasks' = u.tasks /\ stream' = u.stream
  /\ dataIdx' = dataIdx + 1
  /\ imageSrcToCompose' = NoImage
  /\ imageUrl' = NoImage
  /\ pc' = "process"
  /\ UNCHANGED <<closed, usedArticleLinks, collectedData, catIdx, gatherLocals,
                 ownImageLoad>>

\* Mutant: a rejected webhook is passed over and the task is finished as DONE.
WebhookThrowsIgnored ==
  /\ pc = "awaitWebhook"
  /\ calls' = Settle(calls, "webhook", Data.taskId, "rejected")
  /\ LET u == UpdateTask(tasks, stream, Data.taskId, DoneUpdates)
     IN tasks' = u.tasks /\ stream' = u.stream
  /\ dataIdx' = dataIdx + 1
  /\ imageSrcToCompose' = NoImage
  /\ imageUrl' = NoImage
  /\ pc' = "process"
  /\ UNCHANGED <<closed, usedArticleLinks, collectedData, catIdx, allArticles,
                 unusedArticles, ownImageLoad>>

\* sendToMakeWebhook rejects.
WebhookThrows ==
  /\ pc = "awaitWebhook"
  /\ calls' = Settle(calls, "webhook", Data.taskId, "rejected")
  /\ ProcessCatch(<<"Failed to send webhook">>)
  /\ UNCHANGED <<closed, usedArticleLinks, collectedData, catIdx, gatherLocals,
                 ownImageLoad>>

\* Mutant: the Phase 2 loop stops one item early.
ProcessEndEarly ==
  /\ pc = "process"
  /\ dataIdx >= Len(collectedData)
  /\ closed' = TRUE
  /\ pc' = "done"
  /\ UNCHANGED <<tasks, stream, usedArticleLinks, collectedData, catIdx, dataIdx,
                 allArticles, unusedArticles, imageSrcToCompose, imageUrl, ownImageLoad,
                 calls>>

\* The Phase 2 loop ends: controller.close().
ProcessEnd ==
  /\ pc = "process"
  /\ dataIdx > Len(collectedData)
  /\ closed' = TRUE
  /\ pc' = "done"
  /\ UNCHANGED <<tasks, stream, usedArticleLinks, collectedData, catIdx, dataIdx,
                 gatherLocals, processLocals, ownImageLoad,
                 calls>>

UploadUrls == {"https://res.cloudinary.com/image"}

HandlerStep ==
  \/ Start
  \/ GatherBegin
  \/ \E articles \in ArticleLists : FetchReturns(articles)
  \/ FetchThrows
  \/ \E response \in Responses : AnalysisReturns(response)
  \/ DelayElapses
  \/ GatherEnd
  \/ ProcessBegin
  \/ AcquireImage
  \/ GenerateReturns
  \/ GenerateThrows
  \/ ComposeBegin
  \/ \E mainLoads, assetsLoad \in BOOLEAN : ComposeReturns(mainLoads, assetsLoad)
  \/ \E url \in UploadUrls : UploadReturns(url)
  \/ UploadThrows
  \/ WebhookReturns
  \/ WebhookThrows
  \/ ProcessEnd

(***************************************************************************)
(* The handler after the consumer has cancelled the response stream (the   *)
(* caller disconnected).  The underlying source has no cancel callback, so *)
(* start() keeps running; the stream is closed, and on a closed stream     *)
(* controller.enqueue and controller.close throw a TypeError.  updateTask  *)
(* replaces the record (line 46) before pushUpdate throws (line 47).  A    *)
(* throw inside a try block reaches its catch block, whose own updateTask  *)
(* throws again; that exception leaves the loop and rejects start().       *)
(***************************************************************************)
InvalidState == <<"Invalid state: Controller is already closed">>

\* tasks after line 46 alone.
Assigned(ts, taskId, updates) == UpdateTask(ts, <<>>, taskId, updates).tasks

\* updateTask(taskId, updates) in a try block throws; so does the catch block.
ThrowsInTry(taskId, updates) ==
  /\ tasks' = Assigned(Assigned(tasks, taskId, updates), taskId, ErrorUpdates(InvalidState))
  /\ pc' = "aborted"

\* updateTask(taskId, {status: ERROR, error}) in a catch block throws.
ThrowsInCatch(taskId, message) ==
  /\ tasks' = Assigned(tasks, taskId, ErrorUpdates(message))
  /\ pc' = "aborted"

\* The consumer cancels the stream while the run is under way.
Cancel ==
  /\ ~cancelled
  /\ pc \notin {"start", "done"}
  /\ cancelled' = TRUE
  /\ UNCHANGED serverVars

CancelledGatherBegin ==
  /\ pc = "gather"
  /\ catIdx <= NumCategories
  /\ ThrowsInTry(Category.apiValue, [status |-> TaskStatus.GATHERING])
  /\ UNCHANGED <<stream, closed, usedArticleLinks, collectedData, catIdx, dataIdx,
                 gatherLocals, processLocals, ownImageLoad, calls>>

CancelledFetchReturns(articles) ==
  IF Len(UnusedArticles(articles, usedArticleLinks)) = 0
  THEN /\ pc = "awaitFetch"
       /\ calls' = Settle(calls, "fetch", Category.apiValue, "resolved")
       /\ ThrowsInCatch(Category.apiValue, NoUnusedArticles(Category.name))
       /\ UNCHANGED <<stream, closed, usedArticleLinks, collectedData, catIdx, dataIdx,
                      gatherLocals, processLocals, ownImageLoad>>
  ELSE FetchReturns(articles)

CancelledFetchThrows ==
  /\ pc = "awaitFetch"
  /\ calls' = Settle(calls, "fetch", Category.apiValue, "rejected")
  /\ ThrowsInCatch(Category.apiValue, <<"Failed to fetch news">>)
  /\ UNCHANGED <<stream, closed, usedArticleLinks, collectedData, catIdx, dataIdx,
                 gatherLocals, processLocals, ownImageLoad>>

CancelledAnalysisReturns(response) ==
  /\ pc = "awaitAnalysis"
  /\ LET result == FindAndAnalyzeBestArticleFromList(unusedArticles, response)
     IN /\ calls' = Settle(calls, "analysis", Category.apiValue,
                           IF result.kind = "throw" THEN "rejected" ELSE "resolved")
        /\ IF result.kind = "throw"
           THEN /\ ThrowsInCatch(Category.apiValue, <<"Failed to analyze the news article">>)
                /\ UNCHANGED <<usedArticleLinks, collectedData>>
           ELSE IF result.kind = "null"
           THEN /\ ThrowsInCatch(Category.apiValue, NoRelevantArticle(Category.name))
                /\ UNCHANGED <<usedArticleLinks, collectedData>>
           ELSE /\ usedArticleLinks' = usedArticleLinks \cup {result.article.link}
                /\ collectedData' = Append(collectedData,
                                           [taskId |-> Category.apiValue,
                                            analysis |-> result.analysis,
                                            article |-> result.article])
                /\ ThrowsInTry(Category.apiValue, [status |-> TaskStatus.GATHERED])
  /\ UNCHANGED <<stream, closed, catIdx, dataIdx, gatherLocals, processLocals,
                 ownImageLoad>>

CancelledProcessBegin ==
  /\ pc = "process"
  /\ dataIdx <= Len(collectedData)
  /\ ThrowsInTry(Data.taskId, [status |-> TaskStatus.PROCESSING])
  /\ UNCHANGED <<stream, closed, usedArticleLinks, collectedData, catIdx, dataIdx,
                 gatherLocals, processLocals, ownImageLoad, calls>>

CancelledAcquireImage ==
  IF pc = "acquire" /\ Data.article.image_url = ""
  THEN /\ ThrowsInTry(Data.taskId, [status |-> TaskStatus.GENERATING_IMAGE])
       /\ ownImageLoad' = [ownImageLoad EXCEPT ![Data.taskId] = "missing"]
       /\ UNCHANGED <<stream, closed, usedArticleLinks, collectedData, catIdx, dataIdx,
                      gatherLocals, processLocals, calls>>
  ELSE AcquireImage

CancelledGenerateThrows ==
  /\ pc = "awaitGenerate"
  /\ calls' = Settle(calls, "generate", Data.taskId, "rejected")
  /\ ThrowsInCatch(Data.taskId, <<"Failed to generate image">>)
  /\ UNCHANGED <<stream, closed, usedArticleLinks, collectedData, catIdx, dataIdx,
                 gatherLocals, processLocals, ownImageLoad>>

CancelledComposeBegin ==
  /\ pc = "compose"
  /\ ThrowsInTry(Data.taskId, [status |-> TaskStatus.COMPOSING])
  /\ UNCHANGED <<stream, closed, usedArticleLinks, collectedData, catIdx, dataIdx,
                 gatherLocals, processLocals, ownImageLoad, calls>>

CancelledComposeReturns(mainLoads, assetsLoad) ==
  /\ pc = "awaitCompose"
  /\ calls' = Settle(calls, "compose", Data.taskId,
                     IF mainLoads /\ assetsLoad THEN "resolved" ELSE "rejected")
  /\ ownImageLoad' =
       IF imageSrcToCompose = Data.article.image_url
       THEN [ownImageLoad EXCEPT ![Data.taskId] = IF mainLoads THEN "loaded" ELSE "failed"]
       ELSE ownImageLoad
  /\ IF mainLoads /\ assetsLoad
     THEN ThrowsInTry(Data.taskId, [status |-> TaskStatus.UPLOADING])
     ELSE ThrowsInCatch(Data.taskId, <<"Failed to compose image">>)
  /\ UNCHANGED <<stream, closed, usedArticleLinks, collectedData, catIdx, dataIdx,
                 gatherLocals, processLocals>>

CancelledUploadReturns(url) ==
  /\ pc = "awaitUpload"
  /\ calls' = Settle(calls, "upload", Data.taskId, "resolved")
  /\ imageUrl' = url
  /\ ThrowsInTry(Data.taskId, [status |-> TaskStatus.SENDING_WEBHOOK])
  /\ UNCHANGED <<stream, closed, usedArticleLinks, collectedData, catIdx, dataIdx,
                 gatherLocals, imageSrcToCompose, ownImageLoad>>

CancelledUploadThrows ==
  /\ pc = "awaitUpload"
  /\ calls' = Settle(calls, "upload", Data.taskId, "rejected")
  /\ ThrowsInCatch(Data.taskId, <<"Failed to upload image">>)
  /\ UNCHANGED <<stream, closed, usedArticleLinks, collectedData, catIdx, dataIdx,
                 gatherLocals, processLocals, ownImageLoad>>

CancelledWebhookReturns ==
  /\ pc = "awaitWebhook"
  /\ calls' = Settle(calls, "webhook", Data.taskId, "resolved")
  /\ ThrowsInTry(Data.taskId, DoneUpdates)
  /\ UNCHANGED <<stream, closed, usedArticleLinks, collectedData, catIdx, dataIdx,
                 gatherLocals, processLocals, ownImageLoad>>

CancelledWebhookThrows ==
  /\ pc = "awaitWebhook"
  /\ calls' = Settle(calls, "webhook", Data.taskId, "rejected")
  /\ ThrowsInCatch(Data.taskId, <<"Failed to send webhook">>)
  /\ UNCHANGED <<stream, closed, usedArticleLinks, collectedData, catIdx, dataIdx,
                 gatherLocals, processLocals, ownImageLoad>>

\* The Phase 2 loop ends: controller.close() throws.
CancelledProcessEnd ==
  /\ pc = "process"
  /\ dataIdx > Len(collectedData)
  /\ pc' = "aborted"
  /\ UNCHANGED <<tasks, stream, closed, usedArticleLinks, collectedData, catIdx,
                 dataIdx, gatherLocals, processLocals, ownImageLoad, calls>>

\* The handler's steps on a cancelled stream; a step without updateTask is
\* the same as before.
CancelledHandlerStep ==
  \/ CancelledGatherBegin
  \/ \E articles \in ArticleLists : CancelledFetchReturns(articles)
  \/ CancelledFetchThrows
  \/ \E response \in Responses : CancelledAnalysisReturns(response)
  \/ DelayElapses
  \/ GatherEnd
  \/ CancelledProcessBegin
  \/ CancelledAcquireImage
  \/ GenerateReturns
  \/ CancelledGenerateThrows
  \/ CancelledComposeBegin
  \/ \E mainLoads, assetsLoad \in BOOLEAN : CancelledComposeReturns(mainLoads, assetsLoad)
  \/ \E url \in UploadUrls : CancelledUploadReturns(url)
  \/ CancelledUploadThrows
  \/ CancelledWebhookReturns
  \/ CancelledWebhookThrows
  \/ CancelledProcessEnd

\* A step of the handler whose consumer may cancel.
CancellableStep ==
  \/ ~cancelled /\ HandlerStep /\ UNCHANGED cancelled
  \/ Cancel
  \/ cancelled /\ CancelledHandlerStep /\ UNCHANGED cancelled

(***************************************************************************)
(* The browser client: handleStartAutomation reads the response stream.    *)
(***************************************************************************)
\* A field of a parsed object; a missing one reads as undefined.
Field(obj, key) == IF key \in DOMAIN obj THEN obj[key] ELSE "undefined"

\* Mutant: the updater counts every DONE update.
ApplyUpdateCountsEvery(prevTasks, count, update) ==
  [tasks |-> [i \in 1..Len(prevTasks) |->
                IF prevTasks[i].id = Field(update, "id") THEN update ELSE prevTasks[i]],
   count |-> IF Field(update, "status") = TaskStatus.DONE THEN count + 1 ELSE count]

\* The setTasks updater: the record with the update's id is replaced by the
\* update; completedCount goes up when the update is DONE and the record it
\* replaces was not already DONE.
ApplyUpdate(prevTasks, count, update) ==
  LET alreadyDone ==
        \E i \in 1..Len(prevTasks) :
          /\ prevTasks[i].id = Field(update, "id")
          /\ prevTasks[i].status = TaskStatus.DONE
      newTasks ==
        [i \in 1..Len(prevTasks) |->
           IF prevTasks[i].id = Field(update, "id") THEN update ELSE prevTasks[i]]
  IN [tasks |-> newTasks,
      count |-> IF Field(update, "status") = TaskStatus.DONE /\ ~alreadyDone
                THEN count + 1 ELSE count]

\* Mutant: the piece after the last line feed is thrown away.
LastPieceDropped(pieces) == <<>>

\* lines.pop() || '': the piece after the last line feed stays in the buffer.
LastPiece(pieces) == pieces[Len(pieces)]

\* The catch block: every task becomes ERROR.
FailAll(ts) ==
  [i \in 1..Len(ts) |->
     Spread(ts[i], [status |-> TaskStatus.ERROR, error |-> <<"Automation failed to start.">>])]

ClientInit ==
  /\ cpc = "idle"
  /\ clientTasks = InitialTasks       \* initializeTasks() on mount
  /\ completedCount = 0
  /\ isProcessing = FALSE
  /\ wire = <<>>
  /\ delivered = <<>>
  /\ decoderPending = <<>>
  /\ buffer = <<>>
  /\ lines = <<>>
  /\ applied = <<>>

\* handleStartAutomation is called: tasks are reset and the request is sent.
ClientStart ==
  /\ cpc = "idle"
  /\ ~isProcessing
  /\ isProcessing' = TRUE
  /\ clientTasks' = InitialTasks
  /\ completedCount' = 0
  /\ cpc' = "awaitResponse"
  /\ UNCHANGED <<wire, delivered, decoderPending, buffer, lines, applied>>

\* fetch resolves with an ok response that has a body.
ResponseArrives(body) ==
  /\ cpc = "awaitResponse"
  /\ wire' = body
  /\ delivered' = <<>>
  /\ decoderPending' = <<>>
  /\ buffer' = <<>>
  /\ cpc' = "read"
  /\ UNCHANGED <<clientTasks, completedCount, isProcessing, lines, applied>>

\* The catch and finally blocks.
ClientCatch ==
  /\ clientTasks' = FailAll(clientTasks)
  /\ isProcessing' = FALSE
  /\ cpc' = "finished"

\* fetch rejects, or the response is not ok or has no body.
ResponseFails ==
  /\ cpc = "awaitResponse"
  /\ ClientCatch
  /\ UNCHANGED <<completedCount, wire, delivered, decoderPending, buffer, lines, applied>>

\* reader.read() resolves with the next n bytes: decode, append to the
\* buffer, split on line feeds, keep the last piece.
ReadChunk(n) ==
  /\ cpc = "read"
  /\ n \in 1..Len(wire)
  /\ LET value == SubSeq(wire, 1, n)
         decoded == StreamDecode(decoderPending, value)
         pieces == Split(buffer \o decoded.chars)
     IN /\ decoderPending' = decoded.pending
        /\ buffer' = LastPiece(pieces)
        /\ lines' = SubSeq(pieces, 1, Len(pieces) - 1)
        /\ delivered' = delivered \o value
  /\ wire' = SubSeq(wire, n + 1, Len(wire))
  /\ cpc' = "lines"
  /\ UNCHANGED <<clientTasks, completedCount, isProcessing, applied>>

\* Mutant: a line that fails to parse ends the run in the outer catch block.
HandleLineNoInnerCatch ==
  /\ cpc = "lines"
  /\ lines # <<>>
  /\ LET line == Head(lines)
         parsed == JSONParse(line)
     IN IF Trim(line) = <<>>
        THEN /\ lines' = Tail(lines)
             /\ UNCHANGED <<clientTasks, completedCount, applied, cpc, isProcessing>>
        ELSE IF ~parsed.ok
        THEN /\ ClientCatch
             /\ UNCHANGED <<completedCount, applied, lines>>
        ELSE LET r == ApplyUpdate(clientTasks, completedCount, parsed.value)
             IN /\ clientTasks' = r.tasks
                /\ completedCount' = r.count
                /\ applied' = Append(applied, parsed.value)
                /\ lines' = Tail(lines)
                /\ UNCHANGED <<cpc, isProcessing>>
  /\ UNCHANGED <<wire, delivered, decoderPending, buffer>>

\* One iteration of the for loop over the chunk's lines.
HandleLine ==
  /\ cpc = "lines"
  /\ lines # <<>>
  /\ LET line == Head(lines)
         parsed == JSONParse(line)
     IN IF Trim(line) = <<>> \/ ~parsed.ok
        THEN UNCHANGED <<clientTasks, completedCount, applied>>
        ELSE LET r == ApplyUpdate(clientTasks, completedCount, parsed.value)
             IN /\ clientTasks' = r.tasks
                /\ completedCount' = r.count
                /\ applied' = Append(applied, parsed.value)
  /\ lines' = Tail(lines)
  /\ UNCHANGED <<cpc, isProcessing, wire, delivered, decoderPending, buffer>>

\* The for loop ends: back to reader.read().
LinesDone ==
  /\ cpc = "lines"
  /\ lines = <<>>
  /\ cpc' = "read"
  /\ UNCHANGED <<clientTasks, completedCount, isProcessing, wire, delivered,
                 decoderPending, buffer, lines, applied>>

\* reader.read() resolves with done: the loop ends, finally runs.
ReadDone ==
  /\ cpc = "read"
  /\ wire = <<>>
  /\ isProcessing' = FALSE
  /\ cpc' = "finished"
  /\ UNCHANGED <<clientTasks, completedCount, wire, delivered, decoderPending,
                 buffer, lines, applied>>

\* reader.read() rejects.
ReadThrows ==
  /\ cpc = "read"
  /\ ClientCatch
  /\ UNCHANGED <<completedCount, wire, delivered, decoderPending, buffer, lines, applied>>

\* The response bodies the client is run on: up to MaxLines lines, each
\* followed by a line feed.
WireIds ==
  {NEWS_CATEGORIES[1].apiValue, NEWS_CATEGORIES[NumCategories].apiValue, "unknown"}

WireSnapshots ==
  {[id |-> id, categoryName |-> id, status |-> TaskStatus.GATHERING] : id \in WireIds}
  \cup
  {[id |-> id, categoryName |-> id, status |-> TaskStatus.DONE,
    result |-> [headline |-> "headline", imageUrl |-> "url", caption |-> "caption",
                sourceUrl |-> LinkNames[1], sourceName |-> "source"]] : id \in WireIds}

WireLines ==
  {Stringify(t) : t \in WireSnapshots}
  \cup {<<>>, <<SP>>, <<LB, Member("id", <<"unknown">>)>>}

RECURSIVE JoinLines(_)
JoinLines(ls) == IF ls = <<>> THEN <<>> ELSE Head(ls) \o <<NL>> \o JoinLines(Tail(ls))

Bodies == {TextEncode(JoinLines(ls)) : ls \in SeqsUpTo(WireLines, MaxLines)}

ClientStep ==
  \/ ClientStart
  \/ \E body \in Bodies : ResponseArrives(body)
  \/ ResponseFails
  \/ \E n \in 1..Len(wire) : ReadChunk(n)
  \/ HandleLine
  \/ LinesDone
  \/ ReadDone
  \/ ReadThrows

(***************************************************************************)
(* The legacy orchestrator's "Trending" merge: the results of the fetches  *)
(* of the other categories are flattened, made unique by link through a    *)
(* Map, sorted by pubDate (newest first) and cut to the first ten.         *)
(***************************************************************************)
MergeLinks == {LinkNames[1], LinkNames[2], LinkNames[3]}

\* new Date(pubDate).getTime() of the articles that carry a pubDate.
PubTimes == {1, 2}

MergeArticles ==
  {[link |-> l] : l \in MergeLinks} \cup [link : MergeLinks, pubDate : PubTimes]

\* What two concurrent fetches can resolve with: the articles cut in two.
Splits(articles) ==
  {<<SubSeq(articles, 1, k), SubSeq(articles, k + 1, Len(articles))>> :
     k \in 0..Len(articles)}

\* Array.prototype.flat
RECURSIVE Flat(_)
Flat(arrays) == IF arrays = <<>> THEN <<>> ELSE Head(arrays) \o Flat(Tail(arrays))

\* Map.prototype.set: a key already present keeps its position and takes the
\* new value; a new key is appended.
MapSet(map, key, value) ==
  IF \E i \in 1..Len(map) : map[i].key = key
  THEN [i \in 1..Len(map) |->
          IF map[i].key = key THEN [key |-> key, value |-> value] ELSE map[i]]
  ELSE Append(map, [key |-> key, value |-> value])

\* new Map(entries): the entries are set one after the other.
RECURSIVE NewMap(_, _)
NewMap(map, entries) ==
  IF entries = <<>> THEN map
  ELSE NewMap(MapSet(map, Head(entries).link, Head(entries)), Tail(entries))

\* Array.from(map.values())
MapValues(map) == [i \in 1..Len(map) |-> map[i].value]

UniqueArticles(articles) == MapValues(NewMap(<<>>, articles))

HasPubDate(a) == "pubDate" \in DOMAIN a

\* The comparator handed to sort.
Compare(a, b) ==
  IF ~HasPubDate(a) \/ ~HasPubDate(b) THEN 0 ELSE b.pubDate - a.pubDate

\* The comparator is a consistent one on this array.
ConsistentOn(articles) ==
  \A i, j, k \in 1..Len(articles) :
    (Compare(articles[i], articles[j]) <= 0 /\ Compare(articles[j], articles[k]) <= 0)
      => Compare(articles[i], articles[k]) <= 0

\* Stable insertion: after every element that does not compare greater.
RECURSIVE InsertSorted(_, _)
InsertSorted(sorted, a) ==
  IF sorted = <<>> THEN <<a>>
  ELSE IF Compare(sorted[Len(sorted)], a) <= 0 THEN Append(sorted, a)
  ELSE Append(InsertSorted(SubSeq(sorted, 1, Len(sorted) - 1), a), sorted[Len(sorted)])

RECURSIVE StableSort(_, _)
StableSort(sorted, rest) ==
  IF rest = <<>> THEN sorted ELSE StableSort(InsertSorted(sorted, Head(rest)), Tail(rest))

Permutations(articles) ==
  LET n == Len(articles)
      onto == {f \in [1..n -> 1..n] : \A x \in 1..n : \E y \in 1..n : f[y] = x}
  IN {[i \in 1..n |-> articles[f[i]]] : f \in onto}

\* Array.prototype.sort: stable for a consistent comparator; for any other
\* the order is implementation-defined.
SortOutcomes(articles) ==
  IF ConsistentOn(articles) THEN {StableSort(<<>>, articles)} ELSE Permutations(articles)

\* uniqueArticles.slice(0, 10)
TrendingLimit == 10

Slice(articles, end) == SubSeq(articles, 1, IF Len(articles) < end THEN Len(articles) ELSE end)

MergeIdle ==
  /\ mergePc = "idle"
  /\ fetchResults = <<>>
  /\ articlesFromAllCategories = <<>>
  /\ uniqueArticles = <<>>
  /\ trendingArticles = <<>>

MergeInit ==
  /\ mergePc = "input"
  /\ \E articles \in SeqsUpTo(MergeArticles, MaxMerged) :
       fetchResults \in Splits(articles)
  /\ articlesFromAllCategories = <<>>
  /\ uniqueArticles = <<>>
  /\ trendingArticles = <<>>

\* Lines 73-84 of the legacy orchestrator, on the fetched results.
MergeArticlesFetched(sorted) ==
  /\ mergePc = "input"
  /\ articlesFromAllCategories' = Flat(fetchResults)
  /\ uniqueArticles' = UniqueArticles(Flat(fetchResults))
  /\ trendingArticles' = Slice(sorted, TrendingLimit)
  /\ mergePc' = "done"
  /\ UNCHANGED fetchResults

MergeStep ==
  \E sorted \in SortOutcomes(UniqueArticles(Flat(fetchResults))) :
    MergeArticlesFetched(sorted)

(***************************************************************************)
(* The in-browser orchestrator (App.handleStartAutomation with the two     *)
(* phases in the page).  It keeps the same state as the handler, without a *)
(* stream: tasks (React state), usedArticleLinks, collectedData, the loop  *)
(* positions and locals, isProcessing and completedCount.  For the         *)
(* category 'top' it fetches every other category concurrently.  It is     *)
(* explored with its own number of categories and its own article lists.   *)
(***************************************************************************)
APP_NEWS_CATEGORIES ==
  [i \in 1..NumAppCategories |-> [apiValue |-> CategoryKeys[i], name |-> CategoryKeys[i]]]

AppArticles == {ArticleOf(LinkNames[1]), ArticleOf(LinkNames[2])}

AppArticleLists == SeqsUpTo(AppArticles, MaxAppArticles)

\* The rate-limit delay between categories, in milliseconds.
API_FETCH_DELAY_MS == 1000

AppInitialTasks ==
  [i \in 1..NumAppCategories |->
     [id |-> APP_NEWS_CATEGORIES[i].apiValue,
      categoryName |-> APP_NEWS_CATEGORIES[i].name,
      status |-> TaskStatus.PENDING]]

\* updateTask: setTasks(prevTasks => prevTasks.map(...))
AppUpdateTask(ts, taskId, updates) ==
  [i \in 1..Len(ts) |-> IF ts[i].id = taskId THEN Spread(ts[i], updates) ELSE ts[i]]

AppCategory == APP_NEWS_CATEGORIES[catIdx]

\* NEWS_CATEGORIES.filter(c => c.apiValue !== 'top').map(c => c.apiValue)
OtherCategoryValues ==
  LET others == SelectSeq(APP_NEWS_CATEGORIES, LAMBDA c : c.apiValue # "top")
  IN [i \in 1..Len(others) |-> others[i].apiValue]

NoTrendingArticles ==
  <<"Could not find any valid articles to construct a \"Trending\" category.">>

AllIrrelevant(name) == <<"AI deemed all articles irrelevant for ", name, ".">>

\* The call with the given position in the history settles.
SettleAt(cs, n, outcome) == [cs EXCEPT ![n].state = outcome]

\* The call issued last is the one a sequential await waits for.
SettleLast(cs, outcome) == SettleAt(cs, Len(cs), outcome)

RECURSIVE IssueAll(_, _, _)
IssueAll(cs, fn, keys) ==
  IF keys = <<>> THEN cs ELSE IssueAll(Issue(cs, fn, Head(keys)), fn, Tail(keys))

AppInit ==
  /\ pc = "appStart"
  /\ tasks = <<>>
  /\ stream = <<>>
  /\ closed = FALSE
  /\ usedArticleLinks = {}
  /\ collectedData = <<>>
  /\ catIdx = 1
  /\ dataIdx = 1
  /\ allArticles = NoArticles
  /\ unusedArticles = NoArticles
  /\ imageSrcToCompose = NoImage
  /\ imageUrl = NoImage
  /\ ownImageLoad = [id \in TaskIds |-> "untried"]
  /\ calls = <<>>

\* The variables the in-browser orchestrator never writes.
appUntouched ==
  <<stream, closed, ownImageLoad, cpc, clientTasks, wire, delivered, decoderPending,
    buffer, lines, applied>>

\* Lines 34-46: the state is reset and the task list built.
AppStart ==
  /\ pc = "appStart"
  /\ isProcessing' = TRUE
  /\ completedCount' = 0
  /\ tasks' = AppInitialTasks
  /\ pc' = "appGather"
  /\ UNCHANGED <<usedArticleLinks, collectedData, catIdx, dataIdx, gatherLocals,
                 processLocals, calls, fanOut>>

\* Phase 1, top of an iteration: GATHERING; 'top' issues the fetches of all
\* other categories at once, any other category its own fetch.
AppGatherBegin ==
  /\ pc = "appGather"
  /\ catIdx <= NumAppCategories
  /\ tasks' = AppUpdateTask(tasks, AppCategory.apiValue, [status |-> TaskStatus.GATHERING])
  /\ IF AppCategory.apiValue = "top"
     THEN /\ calls' = IssueAll(calls, "fetch", OtherCategoryValues)
          /\ fanOut' = [i \in 1..Len(OtherCategoryValues) |->
                          [key |-> OtherCategoryValues[i], state |-> "pending",
                           articles |-> NoArticles, call |-> Len(calls) + i]]
          /\ pc' = "appAwaitAll"
     ELSE /\ calls' = Issue(calls, "fetch", AppCategory.apiValue)
          /\ pc' = "appAwaitFetch"
          /\ UNCHANGED fanOut
  /\ UNCHANGED <<usedArticleLinks, collectedData, catIdx, dataIdx, gatherLocals,
                 processLocals, isProcessing, completedCount>>

\* The catch block of Phase 1.
AppGatherCatch(message) ==
  /\ tasks' = AppUpdateTask(tasks, AppCategory.apiValue, ErrorUpdates(message))
  /\ catIdx' = catIdx + 1
  /\ allArticles' = NoArticles
  /\ unusedArticles' = NoArticles
  /\ pc' = "appGather"

\* Lines 95-102, with allArticles at hand and cs the calls so far.
AppArticlesFetched(cs, articles) ==
  IF Len(UnusedArticles(articles, usedArticleLinks)) = 0
  THEN /\ calls' = cs
       /\ AppGatherCatch(NoUnusedArticles(AppCategory.name))
  ELSE /\ calls' = Issue(cs, "analysis", AppCategory.apiValue)
       /\ allArticles' = articles
       /\ unusedArticles' = UnusedArticles(articles, usedArticleLinks)
       /\ pc' = "appAwaitAnalysis"
       /\ UNCHANGED <<tasks, catIdx>>

\* The values of the fan-out are dropped once Promise.all has settled.
Dropped(fo) == [i \in 1..Len(fo) |-> [fo[i] EXCEPT !.articles = NoArticles]]

\* One fetch of the fan-out resolves.  When it is the last one Promise.all
\* resolves and lines 75-93 run; when Promise.all has rejected before, the
\* value goes nowhere.
AppFanOutResolves(i, articles) ==
  /\ i \in 1..Len(fanOut)
  /\ fanOut[i].state = "pending"
  /\ LET settled == [fanOut EXCEPT ![i].state = "resolved", ![i].articles = articles]
         cs == SettleAt(calls, fanOut[i].call, "resolved")
         joined == \A j \in 1..Len(settled) : settled[j].state = "resolved"
         results == [j \in 1..Len(settled) |-> settled[j].articles]
     IN IF pc = "appAwaitAll" /\ joined
        THEN /\ fanOut' = Dropped(settled)
             /\ \E sorted \in SortOutcomes(UniqueArticles(Flat(results))) :
                  IF Len(Slice(sorted, TrendingLimit)) = 0
                  THEN /\ calls' = cs
                       /\ AppGatherCatch(NoTrendingArticles)
                  ELSE AppArticlesFetched(cs, Slice(sorted, TrendingLimit))
        ELSE /\ fanOut' = IF pc = "appAwaitAll" THEN settled ELSE Dropped(settled)
             /\ calls' = cs
             /\ UNCHANGED <<pc, tasks, catIdx, gatherLocals>>
  /\ UNCHANGED <<usedArticleLinks, collectedData, dataIdx, processLocals, isProcessing,
                 completedCount>>

\* One fetch of the fan-out rejects.  The first rejection rejects Promise.all
\* and the catch block runs; the other fetches stay in flight.
AppFanOutRejects(i) ==
  /\ i \in 1..Len(fanOut)
  /\ fanOut[i].state = "pending"
  /\ fanOut' = Dropped([fanOut EXCEPT ![i].state = "rejected"])
  /\ calls' = SettleAt(calls, fanOut[i].call, "rejected")
  /\ IF pc = "appAwaitAll"
     THEN AppGatherCatch(<<"Failed to fetch news">>)
     ELSE UNCHANGED <<pc, tasks, catIdx, gatherLocals>>
  /\ UNCHANGED <<usedArticleLinks, collectedData, dataIdx, processLocals, isProcessing,
                 completedCount>>

\* fetchLatestBangladeshiNews(category.apiValue) resolves.
AppFetchReturns(articles) ==
  /\ pc = "appAwaitFetch"
  /\ AppArticlesFetched(SettleLast(calls, "resolved"), articles)
  /\ UNCHANGED <<usedArticleLinks, collectedData, dataIdx, processLocals, fanOut,
                 isProcessing, completedCount>>

\* fetchLatestBangladeshiNews(category.apiValue) rejects.
AppFetchThrows ==
  /\ pc = "appAwaitFetch"
  /\ calls' = SettleLast(calls, "rejected")
  /\ AppGatherCatch(<<"Failed to fetch news">>)
  /\ UNCHANGED <<usedArticleLinks, collectedData, dataIdx, processLocals, fanOut,
                 isProcessing, completedCount>>

\* findAndAnalyzeBestArticleFromList settles.
AppAnalysisReturns(response) ==
  /\ pc = "appAwaitAnalysis"
  /\ LET result == FindAndAnalyzeBestArticleFromList(unusedArticles, response)
     IN /\ calls' = SettleLast(calls, IF result.kind = "throw" THEN "rejected"
                                      ELSE "resolved")
        /\ IF result.kind = "throw"
           THEN /\ AppGatherCatch(<<"Failed to analyze the news article">>)
                /\ UNCHANGED <<usedArticleLinks, collectedData>>
           ELSE IF result.kind = "null"
           THEN /\ AppGatherCatch(AllIrrelevant(AppCategory.name))
                /\ UNCHANGED <<usedArticleLinks, collectedData>>
           ELSE /\ usedArticleLinks' = usedArticleLinks \cup {result.article.link}
                /\ collectedData' = Append(collectedData,
                                           [taskId |-> AppCategory.apiValue,
                                            analysis |-> result.analysis,
                                            article |-> result.article])
                /\ tasks' = AppUpdateTask(tasks, AppCategory.apiValue,
                                          [status |-> TaskStatus.GATHERED])
                /\ IF API_FETCH_DELAY_MS > 0
                   THEN /\ pc' = "appAwaitDelay"
                        /\ UNCHANGED <<catIdx, gatherLocals>>
                   ELSE /\ pc' = "appGather"
                        /\ catIdx' = catIdx + 1
                        /\ allArticles' = NoArticles
                        /\ unusedArticles' = NoArticles
  /\ UNCHANGED <<dataIdx, processLocals, fanOut, isProcessing, completedCount>>

\* The API_FETCH_DELAY_MS timer fires: the iteration ends.
AppDelayElapses ==
  /\ pc = "appAwaitDelay"
  /\ catIdx' = catIdx + 1
  /\ allArticles' = NoArticles
  /\ unusedArticles' = NoArticles
  /\ pc' = "appGather"
  /\ UNCHANGED <<tasks, usedArticleLinks, collectedData, dataIdx, processLocals, calls,
                 fanOut, isProcessing, completedCount>>

\* The Phase 1 loop ends; Phase 2 starts on collectedData.
AppGatherEnd ==
  /\ pc = "appGather"
  /\ catIdx > NumAppCategories
  /\ pc' = "appProcess"
  /\ UNCHANGED <<tasks, usedArticleLinks, collectedData, catIdx, dataIdx, gatherLocals,
                 processLocals, calls, fanOut, isProcessing, completedCount>>

\* The catch block of Phase 2.
AppProcessCatch(message) ==
  /\ tasks' = AppUpdateTask(tasks, Data.taskId, ErrorUpdates(message))
  /\ dataIdx' = dataIdx + 1
  /\ imageSrcToCompose' = NoImage
  /\ imageUrl' = NoImage
  /\ pc' = "appProcess"

\* Phase 2, top of an iteration: PROCESSING, then the article's image is loaded.
AppProcessBegin ==
  /\ pc = "appProcess"
  /\ dataIdx <= Len(collectedData)
  /\ tasks' = AppUpdateTask(tasks, Data.taskId, [status |-> TaskStatus.PROCESSING])
  /\ calls' = Issue(calls, "loadImage", Data.taskId)
  /\ pc' = "appAwaitLoad"
  /\ UNCHANGED <<usedArticleLinks, collectedData, catIdx, dataIdx, gatherLocals,
                 processLocals, fanOut, isProcessing, completedCount>>

\* loadImage(article.image_url) settles; an article without image_url cannot
\* load.  On failure the inner catch sets GENERATING_IMAGE and asks for a
\* generated image.
AppLoadReturns(loads) ==
  /\ pc = "appAwaitLoad"
  /\ IF loads /\ Data.article.image_url # ""
     THEN /\ calls' = SettleLast(calls, "resolved")
          /\ imageSrcToCompose' = Data.article.image_url
          /\ pc' = "appCompose"
          /\ UNCHANGED tasks
     ELSE /\ calls' = Issue(SettleLast(calls, "rejected"), "generate", Data.taskId)
          /\ tasks' = AppUpdateTask(tasks, Data.taskId,
                                    [status |-> TaskStatus.GENERATING_IMAGE])
          /\ pc' = "appAwaitGenerate"
          /\ UNCHANGED imageSrcToCompose
  /\ UNCHANGED <<usedArticleLinks, collectedData, catIdx, dataIdx, gatherLocals,
                 imageUrl, fanOut, isProcessing, completedCount>>

\* generateImageFromPrompt resolves: the generated image is loaded.
AppGenerateReturns ==
  /\ pc = "appAwaitGenerate"
  /\ calls' = Issue(SettleLast(calls, "resolved"), "loadImage", Data.taskId)
  /\ pc' = "appAwaitLoadGenerated"
  /\ UNCHANGED <<tasks, usedArticleLinks, collectedData, catIdx, dataIdx, gatherLocals,
                 processLocals, fanOut, isProcessing, completedCount>>

\* generateImageFromPrompt rejects.
AppGenerateThrows ==
  /\ pc = "appAwaitGenerate"
  /\ calls' = SettleLast(calls, "rejected")
  /\ AppProcessCatch(<<"Failed to generate image">>)
  /\ UNCHANGED <<usedArticleLinks, collectedData, catIdx, gatherLocals, fanOut,
                 isProcessing, completedCount>>

\* loadImage(generatedImageBase64) settles.
AppLoadGeneratedReturns(loads) ==
  /\ pc = "appAwaitLoadGenerated"
  /\ IF loads
     THEN /\ calls' = SettleLast(calls, "resolved")
          /\ imageSrcToCompose' = "generated"
          /\ pc' = "appCompose"
          /\ UNCHANGED <<tasks, dataIdx, imageUrl>>
     ELSE /\ calls' = SettleLast(calls, "rejected")
          /\ AppProcessCatch(<<"Failed to load image">>)
  /\ UNCHANGED <<usedArticleLinks, collectedData, catIdx, gatherLocals, fanOut,
                 isProcessing, completedCount>>

\* COMPOSING, then composeImage is called with the loaded image.
AppComposeBegin ==
  /\ pc = "appCompose"
  /\ tasks' = AppUpdateTask(tasks, Data.taskId, [status |-> TaskStatus.COMPOSING])
  /\ calls' = Issue(calls, "compose", Data.taskId)
  /\ pc' = "appAwaitCompose"
  /\ UNCHANGED <<usedArticleLinks, collectedData, catIdx, dataIdx, gatherLocals,
                 processLocals, fanOut, isProcessing, completedCount>>

\* composeImage settles: UPLOADING and the upload, or the catch block.
AppComposeReturns(composed) ==
  /\ pc = "appAwaitCompose"
  /\ IF composed
     THEN /\ calls' = Issue(SettleLast(calls, "resolved"), "upload", Data.taskId)
          /\ tasks' = AppUpdateTask(tasks, Data.taskId, [status |-> TaskStatus.UPLOADING])
          /\ pc' = "appAwaitUpload"
          /\ UNCHANGED <<dataIdx, processLocals>>
     ELSE /\ calls' = SettleLast(calls, "rejected")
          /\ AppProcessCatch(<<"Failed to compose image">>)
  /\ UNCHANGED <<usedArticleLinks, collectedData, catIdx, gatherLocals, fanOut,
                 isProcessing, completedCount>>

\* uploadToCloudinary resolves: SENDING_WEBHOOK, then the webhook is called.
AppUploadReturns(url) ==
  /\ pc = "appAwaitUpload"
  /\ imageUrl' = url
  /\ calls' = Issue(SettleLast(calls, "resolved"), "webhook", Data.taskId)
  /\ tasks' = AppUpdateTask(tasks, Data.taskId, [status |-> TaskStatus.SENDING_WEBHOOK])
  /\ pc' = "appAwaitWebhook"
  /\ UNCHANGED <<usedArticleLinks, collectedData, catIdx, dataIdx, gatherLocals,
                 imageSrcToCompose, fanOut, isProcessing, completedCount>>

\* uploadToCloudinary rejects.
AppUploadThrows ==
  /\ pc = "appAwaitUpload"
  /\ calls' = SettleLast(calls, "rejected")
  /\ AppProcessCatch(<<"Failed to upload image">>)
  /\ UNCHANGED <<usedArticleLinks, collectedData, catIdx, gatherLocals, fanOut,
                 isProcessing, completedCount>>

\* sendToMakeWebhook resolves: DONE with the result, one more completed.
AppWebhookReturns ==
  /\ pc = "appAwaitWebhook"
  /\ calls' = SettleLast(calls, "resolved")
  /\ tasks' = AppUpdateTask(tasks, Data.taskId, DoneUpdates)
  /\ completedCount' = completedCount + 1
  /\ dataIdx' = dataIdx + 1
  /\ imageSrcToCompose' = NoImage
  /\ imageUrl' = NoImage
  /\ pc' = "appProcess"
  /\ UNCHANGED <<usedArticleLinks, collectedData, catIdx, gatherLocals, fanOut,
                 isProcessing>>

\* sendToMakeWebhook rejects.
AppWebhookThrows ==
  /\ pc = "appAwaitWebhook"
  /\ calls' = SettleLast(calls, "rejected")
  /\ AppProcessCatch(<<"Failed to send webhook">>)
  /\ UNCHANGED <<usedArticleLinks, collectedData, catIdx, gatherLocals, fanOut,
                 isProcessing, completedCount>>

\* The Phase 2 loop ends: setIsProcessing(false).
AppProcessEnd ==
  /\ pc = "appProcess"
  /\ dataIdx > Len(collectedData)
  /\ isProcessing' = FALSE
  /\ pc' = "appDone"
  /\ UNCHANGED <<tasks, usedArticleLinks, collectedData, catIdx, dataIdx, gatherLocals,
                 processLocals, calls, fanOut, completedCount>>

AppStep ==
  \/ AppStart
  \/ AppGatherBegin
  \/ \E i \in 1..NumAppCategories, articles \in AppArticleLists :
       AppFanOutResolves(i, articles)
  \/ \E i \in 1..NumAppCategories : AppFanOutRejects(i)
  \/ \E articles \in AppArticleLists : AppFetchReturns(articles)
  \/ AppFetchThrows
  \/ \E response \in Responses : AppAnalysisReturns(response)
  \/ AppDelayElapses
  \/ AppGatherEnd
  \/ AppProcessBegin
  \/ \E loads \in BOOLEAN : AppLoadReturns(loads)
  \/ AppGenerateReturns
  \/ AppGenerateThrows
  \/ \E loads \in BOOLEAN : AppLoadGeneratedReturns(loads)
  \/ AppComposeBegin
  \/ \E composed \in BOOLEAN : AppComposeReturns(composed)
  \/ \E url \in UploadUrls : AppUploadReturns(url)
  \/ AppUploadThrows
  \/ AppWebhookReturns
  \/ AppWebhookThrows
  \/ AppProcessEnd

(***************************************************************************)
(* composeImage, drawing step 4: the headline is wrapped at decreasing     *)
(* font sizes until it fits the text box.  A word is its advance width in  *)
(* quarter ems (0: the empty word that two spaces in a row give), a line a *)
(* sequence of words joined by single spaces; measureText adds up advance  *)
(* widths at the size of ctx.font.  Widths are in quarter pixels, heights  *)
(* in tenths of a pixel.                                                   *)
(***************************************************************************)
CanvasSize == 1080

TextTopMargin == 60

TextSideMargin == 60

TextBottomPadding == 40

\* size * 0.3
ImageTop == 324

MaxTextHeight == ImageTop - TextTopMargin - TextBottomPadding

MaxTextWidth == CanvasSize - TextSideMargin * 2

MaxFontSize == 72

MinFontSize == 20

FontStep == 4

\* fontSize * 1.2, in tenths
LineHeightOf(size) == size * 12

SpaceWidth == 1

\* The empty word, a short one, a long one, one wider than the box at any size.
WordWidths == {0, 16, 28, 164}

WideWord == 164

Headlines ==
  {free \o [i \in 1..k |-> WideWord] :
     free \in SeqsUpTo(WordWidths, MaxWords), k \in 0..MaxWideWords}

RECURSIVE SumWidths(_)
SumWidths(line) == IF line = <<>> THEN 0 ELSE Head(line) + SumWidths(Tail(line))

\* line.length
StrLen(line) == IF line = <<>> THEN 0 ELSE SumWidths(line) + (Len(line) - 1)

\* context.measureText(line).width at the font size given, in quarter pixels
MeasureText(line, size) ==
  IF line = <<>> THEN 0 ELSE (SumWidths(line) + (Len(line) - 1) * SpaceWidth) * size

\* The string made of one word.
LineOf(word) == IF word = 0 THEN <<>> ELSE <<word>>

\* Mutant: the line built so far is measured instead of the extended one.
WrapWordMeasuringCurrent(st, word, size, maxWidth) ==
  LET testLine == IF StrLen(st.currentLine) > 0 THEN Append(st.currentLine, word)
                  ELSE LineOf(word)
  IN IF MeasureText(st.currentLine, size) > 4 * maxWidth /\ StrLen(st.currentLine) > 0
     THEN [lines |-> Append(st.lines, st.currentLine), currentLine |-> LineOf(word)]
     ELSE [lines |-> st.lines, currentLine |-> testLine]

\* The body of the for loop of calculateLines: lines and currentLine after
\* one more word.
WrapWord(st, word, size, maxWidth) ==
  LET testLine == IF StrLen(st.currentLine) > 0 THEN Append(st.currentLine, word)
                  ELSE LineOf(word)
  IN IF MeasureText(testLine, size) > 4 * maxWidth /\ StrLen(st.currentLine) > 0
     THEN [lines |-> Append(st.lines, st.currentLine), currentLine |-> LineOf(word)]
     ELSE [lines |-> st.lines, currentLine |-> testLine]

\* The for loop from the i-th word on, and the final push.
RECURSIVE WrapFrom(_, _, _, _, _)
WrapFrom(st, i, words, size, maxWidth) ==
  IF i > Len(words) THEN Append(st.lines, st.currentLine)
  ELSE Apply(LAMBDA next : WrapFrom(next, i + 1, words, size, maxWidth),
             WrapWord(st, words[i], size, maxWidth))

CalculateLines(size, words, maxWidth) ==
  WrapFrom([lines |-> <<>>, currentLine |-> <<>>], 1, words, size, maxWidth)

FitIdle ==
  /\ fitPc = "idle"
  /\ headline = <<>>
  /\ fontSize = MaxFontSize
  /\ ctxFont = MaxFontSize
  /\ lineHeight = 0          \* let lineHeight: not assigned yet
  /\ headlineLines = <<>>    \* let lines: not assigned yet

\* composeImage has reached the while loop with some headline.
FitInit ==
  /\ fitPc = "loop"
  /\ headline \in Headlines
  /\ fontSize = MaxFontSize
  /\ ctxFont = MaxFontSize
  /\ lineHeight = 0          \* let lineHeight: not assigned yet
  /\ headlineLines = <<>>    \* let lines: not assigned yet

\* Mutant: the font size is not lowered when the headline does not fit.
FitIterationNoDecrement ==
  /\ fitPc = "loop"
  /\ fontSize > MinFontSize
  /\ lineHeight' = LineHeightOf(fontSize)
  /\ ctxFont' = fontSize
  /\ headlineLines' = CalculateLines(fontSize, headline, MaxTextWidth)
  /\ fitPc' = IF Len(headlineLines') * lineHeight' <= MaxTextHeight * 10
              THEN "draw" ELSE "loop"
  /\ UNCHANGED <<headline, fontSize>>

\* One iteration of while (fontSize > 20).
FitIteration ==
  /\ fitPc = "loop"
  /\ fontSize > MinFontSize
  /\ lineHeight' = LineHeightOf(fontSize)
  /\ ctxFont' = fontSize
  /\ headlineLines' = CalculateLines(fontSize, headline, MaxTextWidth)
  /\ IF Len(headlineLines') * lineHeight' <= MaxTextHeight * 10
     THEN fitPc' = "draw" /\ fontSize' = fontSize
     ELSE fitPc' = "loop" /\ fontSize' = fontSize - FontStep
  /\ UNCHANGED headline

\* The loop condition fails.
FitLoopExit ==
  /\ fitPc = "loop"
  /\ ~(fontSize > MinFontSize)
  /\ fitPc' = "draw"
  /\ UNCHANGED <<headline, fontSize, ctxFont, lineHeight, headlineLines>>

FitStep == FitIteration \/ FitLoopExit

(***************************************************************************)
(* drawHeadlineWithHighlights: the while loop that looks for one phrase in *)
(* one line.  Text is a sequence of characters; indices are those of the   *)
(* code (from 0).                                                          *)
(***************************************************************************)
Letters == {"a", "A", "b"}

\* String.prototype.toLowerCase
LowerChar(c) == IF c = "A" THEN "a" ELSE c

ToLowerCase(text) == [i \in 1..Len(text) |-> LowerChar(text[i])]

\* text.substring(from, to), for 0 <= from
Substring(text, from, to) ==
  SubSeq(text, from + 1, IF to > Len(text) THEN Len(text) ELSE to)

\* String.prototype.indexOf(search, position)
IndexOf(text, search, position) ==
  LET from == IF position > Len(text) THEN Len(text) ELSE position
      found == {k \in from..(Len(text) - Len(search)) :
                  Substring(text, k, k + Len(search)) = search}
  IN IF found = {} THEN -1
     ELSE CHOOSE k \in found : \A other \in found : k <= other

ScanIdle ==
  /\ scanPc = "idle"
  /\ lineText = <<>>
  /\ phrase = <<>>
  /\ startIndex = -1
  /\ searchFromIndex = 0
  /\ rects = <<>>

\* The for loop over the phrases has reached some phrase for some line.
ScanInit ==
  /\ scanPc = "scan"
  /\ lineText \in SeqsUpTo(Letters, MaxLineLen)
  /\ phrase \in SeqsUpTo(Letters, MaxPhraseLen) \ {<<>>}
  /\ startIndex = -1
  /\ searchFromIndex = 0
  /\ rects = <<>>

\* composeImage called directly: any list of strings may be passed, so the
\* for loop may reach the empty phrase.
AnyPhraseInit ==
  /\ scanPc = "scan"
  /\ lineText \in SeqsUpTo(Letters, MaxLineLen)
  /\ phrase \in SeqsUpTo(Letters, MaxPhraseLen)
  /\ startIndex = -1
  /\ searchFromIndex = 0
  /\ rects = <<>>

\* The fillRect calls followed for one phrase: two more than a line has
\* search positions.
MaxRects == MaxLineLen + 3

\* Mutant: the search goes on behind the match instead of one character on.
ScanIterationSkippingMatch ==
  /\ scanPc = "scan"
  /\ startIndex' = IndexOf(ToLowerCase(lineText), ToLowerCase(phrase), searchFromIndex)
  /\ IF startIndex' # -1
     THEN /\ rects' = Append(rects,
                             [start |-> startIndex',
                              text |-> Substring(lineText, startIndex',
                                                 startIndex' + Len(phrase))])
          /\ searchFromIndex' = startIndex' + Len(phrase)
          /\ scanPc' = "scan"
     ELSE /\ scanPc' = "done"
          /\ UNCHANGED <<rects, searchFromIndex>>
  /\ UNCHANGED <<lineText, phrase>>

\* One evaluation of the while condition and, on a match, the loop body.
ScanIteration ==
  /\ scanPc = "scan"
  /\ startIndex' = IndexOf(ToLowerCase(lineText), ToLowerCase(phrase), searchFromIndex)
  /\ IF startIndex' # -1
     THEN /\ rects' = Append(rects,
                             [start |-> startIndex',
                              text |-> Substring(lineText, startIndex',
                                                 startIndex' + Len(phrase))])
          /\ searchFromIndex' = startIndex' + 1
          /\ scanPc' = "scan"
     ELSE /\ scanPc' = "done"
          /\ UNCHANGED <<rects, searchFromIndex>>
  /\ UNCHANGED <<lineText, phrase>>

ScanStep == ScanIteration

(***************************************************************************)
(* parseAnalysisResponse (services/gemini) and the return of               *)
(* findAndAnalyzeBestArticleFromList.  The response text is read line by   *)
(* line; a line is the field prefix it starts with ("" for none) and the   *)
(* text after it.  A text is a sequence of characters; the characters that *)
(* matter are the space (trim), the comma (split) and any other one.       *)
(***************************************************************************)
COMMA == [k |-> ",", v |-> <<>>]
CH == [k |-> "a", v |-> <<>>]

FieldPrefixes == {"HEADLINE:", "HIGHLIGHT_WORDS:", "SOURCE_NAME:", "CAPTION:", "IMAGE_PROMPT:"}

\* The texts a line can carry after its prefix: empty, padded with spaces,
\* a lone comma, and a list with a blank entry.
Rests == {<<>>, <<SP, CH, SP>>, <<COMMA>>, <<CH, COMMA, SP, COMMA, CH>>}

ResponseLines == [prefix : FieldPrefixes \cup {""}, rest : Rests]

\* String.prototype.split(','): n separators give n + 1 pieces.
RECURSIVE SplitOn(_, _, _, _)
SplitOn(text, sep, cur, out) ==
  IF text = <<>> THEN Append(out, cur)
  ELSE IF Head(text) = sep THEN SplitOn(Tail(text), sep, <<>>, Append(out, cur))
  ELSE SplitOn(Tail(text), sep, Append(cur, Head(text)), out)

\* .map(w => w.trim())
TrimAll(texts) == [i \in 1..Len(texts) |-> Trim(texts[i])]

\* .filter(Boolean): the empty string is dropped.
FilterBoolean(texts) == SelectSeq(texts, LAMBDA t : t # <<>>)

\* Array.prototype.join
RECURSIVE Join(_, _)
Join(texts, sep) ==
  IF texts = <<>> THEN <<>>
  ELSE IF Len(texts) = 1 THEN texts[1]
  ELSE texts[1] \o <<sep>> \o Join(Tail(texts), sep)

\* Mutant: the highlight phrases are not filtered.
HighlightPhrasesUnfiltered(rest) == TrimAll(SplitOn(Trim(rest), COMMA, <<>>, <<>>))

\* Line 38: .trim().split(',').map(w => w.trim()).filter(Boolean)
HighlightPhrases(rest) == FilterBoolean(TrimAll(SplitOn(Trim(rest), COMMA, <<>>, <<>>)))

\* analysis.field = value
SetField(a, field, value) ==
  [key \in DOMAIN a \cup {field} |-> IF key = field THEN value ELSE a[key]]

\* !analysis.field, for a field holding a string
Missing(a, field) == field \notin DOMAIN a \/ a[field] = <<>>

ParseIdle ==
  /\ parsePc = "idle"
  /\ linesRead = 0
  /\ analysis = <<>>
  /\ isParsingCaption = FALSE
  /\ captionLines = <<>>
  /\ isParsingImagePrompt = FALSE
  /\ imagePromptLines = <<>>
  /\ parseResult = <<>>

\* Lines 17-24: the state before the first line is read.
ParseInit ==
  /\ parsePc = "lines"
  /\ linesRead = 0
  /\ analysis = [highlightPhrases |-> <<>>]
  /\ isParsingCaption = FALSE
  /\ captionLines = <<>>
  /\ isParsingImagePrompt = FALSE
  /\ imagePromptLines = <<>>
  /\ parseResult = <<>>

\* The body of lines.forEach for one line (lines 28-53).
ParseLine(line) ==
  /\ parsePc = "lines"
  /\ linesRead < MaxResponseLines
  /\ linesRead' = linesRead + 1
  /\ LET part == Trim(line.rest)
     IN IF line.prefix = "HEADLINE:"
        THEN /\ analysis' = SetField(analysis, "headline", part)
             /\ isParsingCaption' = FALSE
             /\ isParsingImagePrompt' = FALSE
             /\ UNCHANGED <<captionLines, imagePromptLines>>
        ELSE IF line.prefix = "HIGHLIGHT_WORDS:"
        THEN /\ analysis' = SetField(analysis, "highlightPhrases", HighlightPhrases(line.rest))
             /\ isParsingCaption' = FALSE
             /\ isParsingImagePrompt' = FALSE
             /\ UNCHANGED <<captionLines, imagePromptLines>>
        ELSE IF line.prefix = "SOURCE_NAME:"
        THEN /\ analysis' = SetField(analysis, "sourceName", part)
             /\ isParsingCaption' = FALSE
             /\ isParsingImagePrompt' = FALSE
             /\ UNCHANGED <<captionLines, imagePromptLines>>
        ELSE IF line.prefix = "CAPTION:"
        THEN /\ isParsingCaption' = TRUE
             /\ isParsingImagePrompt' = FALSE
             /\ captionLines' = IF part # <<>> THEN Append(captionLines, part)
                                ELSE captionLines
             /\ UNCHANGED <<analysis, imagePromptLines>>
        ELSE IF line.prefix = "IMAGE_PROMPT:"
        THEN /\ isParsingCaption' = FALSE
             /\ isParsingImagePrompt' = TRUE
             /\ imagePromptLines' = IF part # <<>> THEN Append(imagePromptLines, part)
                                    ELSE imagePromptLines
             /\ UNCHANGED <<analysis, captionLines>>
        ELSE IF isParsingCaption
        THEN /\ captionLines' = Append(captionLines, part)
             /\ UNCHANGED <<analysis, isParsingCaption, isParsingImagePrompt,
                            imagePromptLines>>
        ELSE IF isParsingImagePrompt
        THEN /\ imagePromptLines' = Append(imagePromptLines, part)
             /\ UNCHANGED <<analysis, isParsingCaption, isParsingImagePrompt,
                            captionLines>>
        ELSE UNCHANGED <<analysis, isParsingCaption, isParsingImagePrompt,
                         captionLines, imagePromptLines>>
  /\ UNCHANGED <<parsePc, parseResult>>

\* Lines 56-61: the captured lines are joined into caption and imagePrompt.
Joined(a, caption, prompt) ==
  LET withCaption ==
        IF Len(caption) > 0
        THEN SetField(a, "caption", Join(FilterBoolean(caption), NL))
        ELSE a
  IN IF Len(prompt) > 0
     THEN SetField(withCaption, "imagePrompt", Join(FilterBoolean(prompt), SP))
     ELSE withCaption

\* Line 65: the final validation.
Incomplete(a) ==
  \/ Missing(a, "headline")
  \/ Missing(a, "caption")
  \/ Missing(a, "sourceName")
  \/ "highlightPhrases" \notin DOMAIN a
  \/ Len(a.highlightPhrases) = 0
  \/ Missing(a, "imagePrompt")

\* The last line was read: lines 56-73, and in the caller either the return
\* of { analysis, article } (line 161) or the catch block's throw.
ParseEnd ==
  /\ parsePc = "lines"
  /\ LET joined == Joined(analysis, captionLines, imagePromptLines)
     IN /\ analysis' = joined
        /\ IF Incomplete(joined)
           THEN /\ parsePc' = "thrown"
                /\ parseResult' = [kind |-> "throw"]
           ELSE /\ parsePc' = "returned"
                /\ parseResult' = [kind |-> "ok", analysis |-> joined]
  /\ UNCHANGED <<linesRead, isParsingCaption, captionLines, isParsingImagePrompt,
                 imagePromptLines>>

ParseStep ==
  \/ \E line \in ResponseLines : ParseLine(line)
  \/ ParseEnd

(***************************************************************************)
(* composeImage as a whole (utils/canvas).  The three images are loaded    *)
(* concurrently, the canvas is drawn on in the order of the code, and the  *)
(* three fonts are loaded one after the other before the headline is       *)
(* measured and drawn.  ops is the history of the call: the loads that     *)
(* settled and the calls on the 2D context, in order.  The source          *)
(* rectangle is kept in 1/140 pixel, in which its sides are whole numbers. *)
(***************************************************************************)
\* size * 0.7
ImageHeight == 756

SubPixel == 140

ImageNames == {"mainImage", "overlayImage", "logoImage"}

\* The loadFont calls of lines 183-185.
FontCount == 3

ImageSizes == [width : 1..MaxImageSide, height : 1..MaxImageSide]

DrawTexts == {<<"a", "A">>, <<"b">>}

PhraseLists == {<<>>, <<<<"a">>>>, <<<<"A">>, <<"a", "a">>>>}

Op(op, what, line) == [op |-> op, what |-> what, line |-> line]

\* Mutant: the source is fitted into the region instead of covering it.
CropContained(image) ==
  IF image.width * ImageHeight < CanvasSize * image.height
  THEN LET sHeight == SubPixel * image.height
           sWidth == (sHeight * CanvasSize) \div ImageHeight
       IN [sx |-> (SubPixel * image.width - sWidth) \div 2, sy |-> 0,
           sWidth |-> sWidth, sHeight |-> sHeight]
  ELSE LET sWidth == SubPixel * image.width
           sHeight == (sWidth * ImageHeight) \div CanvasSize
       IN [sx |-> 0, sy |-> (SubPixel * image.height - sHeight) \div 2,
           sWidth |-> sWidth, sHeight |-> sHeight]

\* Lines 151-165: sx, sy, sWidth, sHeight for the loaded main image.
\* imgAspectRatio > canvasAspectRatio is width / height > size / imageHeight.
Crop(image) ==
  IF image.width * ImageHeight > CanvasSize * image.height
  THEN LET sHeight == SubPixel * image.height
           sWidth == (sHeight * CanvasSize) \div ImageHeight
       IN [sx |-> (SubPixel * image.width - sWidth) \div 2, sy |-> 0,
           sWidth |-> sWidth, sHeight |-> sHeight]
  ELSE LET sWidth == SubPixel * image.width
           sHeight == (sWidth * ImageHeight) \div CanvasSize
       IN [sx |-> 0, sy |-> (SubPixel * image.height - sHeight) \div 2,
           sWidth |-> sWidth, sHeight |-> sHeight]

\* The while loop of lines 90-104 for one phrase in one line, from an index.
RECURSIVE HighlightOps(_, _, _, _)
HighlightOps(text, search, i, from) ==
  LET found == IndexOf(ToLowerCase(text), ToLowerCase(search), from)
  IN IF found = -1 THEN <<>>
     ELSE <<Op("measureText", "beforeText", i), Op("measureText", "highlightText", i),
            Op("fillRect", "highlight", i)>>
          \o HighlightOps(text, search, i, found + 1)

\* for (const phrase of highlightPhrases)
RECURSIVE PhrasesOps(_, _, _)
PhrasesOps(text, phrases, i) ==
  IF phrases = <<>> THEN <<>>
  ELSE HighlightOps(text, Head(phrases), i, 0) \o PhrasesOps(text, Tail(phrases), i)

\* Mutant: the text of a line is drawn before its highlights.
DrawLineTextFirst(text, phrases, i) ==
  <<Op("measureText", "lineText", i), Op("fillText", "headline", i)>>
  \o PhrasesOps(text, phrases, i)

\* The body of the for loop of lines 82-112 for the i-th line.
DrawLine(text, phrases, i) ==
  <<Op("measureText", "lineText", i)>>
  \o PhrasesOps(text, phrases, i)
  \o <<Op("fillText", "headline", i)>>

RECURSIVE DrawHeadlineWithHighlights(_, _, _)
DrawHeadlineWithHighlights(ls, phrases, i) ==
  IF i > Len(ls) THEN <<>>
  ELSE DrawLine(ls[i], phrases, i) \o DrawHeadlineWithHighlights(ls, phrases, i + 1)

\* Lines 144-170: background, main image, separator.
DrawSteps1To3 ==
  <<Op("fillRect", "background", 0), Op("drawImage", "mainImage", 0),
    Op("fillRect", "separator", 0)>>

\* Lines 188-228: the fit loop measures the headline (at 72 px at least),
\* then the headline, the overlay, the logo and the brand text are drawn and
\* the canvas is encoded.
DrawSteps4ToEnd ==
  <<Op("measureText", "fit", 0)>>
  \o DrawHeadlineWithHighlights(wrappedLines, highlightPhrases, 1)
  \o <<Op("drawImage", "overlayImage", 0), Op("drawImage", "logoImage", 0),
       Op("fillText", "brand", 0), Op("toDataURL", "canvas", 0)>>

FontsLoaded == Len(SelectSeq(ops, LAMBDA o : o.op = "loaded" /\ o.what = "font"))

NoRect == [sx |-> 0, sy |-> 0, sWidth |-> 0, sHeight |-> 0]

ComposeIdle ==
  /\ composePc = "idle"
  /\ mainImage = [width |-> 1, height |-> 1]
  /\ wrappedLines = <<>>
  /\ highlightPhrases = <<>>
  /\ imageLoads = [n \in ImageNames |-> "pending"]
  /\ ops = <<>>
  /\ sourceRect = NoRect

\* composeImage was called and has issued the three loads (line 137): for
\* some main image, and for some wrapped headline and phrases.
ComposeInit ==
  /\ composePc = "loading"
  /\ \/ /\ mainImage \in ImageSizes
        /\ wrappedLines = <<<<"b">>>>
        /\ highlightPhrases = <<>>
     \/ /\ mainImage = [width |-> 1, height |-> 1]
        /\ wrappedLines \in SeqsUpTo(DrawTexts, MaxDrawLines) \ {<<>>}
        /\ highlightPhrases \in PhraseLists
  /\ imageLoads = [n \in ImageNames |-> "pending"]
  /\ ops = <<>>
  /\ sourceRect = NoRect

\* One of the three loads resolves.  With the last one Promise.all resolves
\* and lines 144-183 run, up to the first loadFont.
ImageLoadResolves(name) ==
  /\ imageLoads[name] = "pending"
  /\ imageLoads' = [imageLoads EXCEPT ![name] = "resolved"]
  /\ IF composePc = "loading" /\ \A n \in ImageNames : imageLoads'[n] = "resolved"
     THEN /\ ops' = Append(ops, Op("loaded", name, 0)) \o DrawSteps1To3
          /\ sourceRect' = Crop(mainImage)
          /\ composePc' = "loadFont"
     ELSE /\ ops' = Append(ops, Op("loaded", name, 0))
          /\ UNCHANGED <<sourceRect, composePc>>
  /\ UNCHANGED <<mainImage, wrappedLines, highlightPhrases>>

\* Mutant: a failed load is passed over and the image counts as loaded.
ImageLoadRejectsIgnored(name) ==
  /\ imageLoads[name] = "pending"
  /\ imageLoads' = [imageLoads EXCEPT ![name] = "rejected"]
  /\ IF composePc = "loading"
          /\ \A n \in ImageNames : imageLoads'[n] \in {"resolved", "rejected"}
     THEN /\ ops' = Append(ops, Op("failed", name, 0)) \o DrawSteps1To3
          /\ sourceRect' = Crop(mainImage)
          /\ composePc' = "loadFont"
     ELSE /\ ops' = Append(ops, Op("failed", name, 0))
          /\ UNCHANGED <<sourceRect, composePc>>
  /\ UNCHANGED <<mainImage, wrappedLines, highlightPhrases>>

\* One of the three loads rejects.  The first rejection rejects Promise.all
\* and with it composeImage; the other loads stay in flight.
ImageLoadRejects(name) ==
  /\ imageLoads[name] = "pending"
  /\ imageLoads' = [imageLoads EXCEPT ![name] = "rejected"]
  /\ ops' = Append(ops, Op("failed", name, 0))
  /\ composePc' = IF composePc = "loading" THEN "rejected" ELSE composePc
  /\ UNCHANGED <<mainImage, wrappedLines, highlightPhrases, sourceRect>>

\* An awaited loadFont resolves; after the third one lines 188-228 run.
FontLoadResolves ==
  /\ composePc = "loadFont"
  /\ IF FontsLoaded + 1 = FontCount
     THEN /\ ops' = Append(ops, Op("loaded", "font", 0)) \o DrawSteps4ToEnd
          /\ composePc' = "encoding"
     ELSE /\ ops' = Append(ops, Op("loaded", "font", 0))
          /\ UNCHANGED composePc
  /\ UNCHANGED <<mainImage, wrappedLines, highlightPhrases, imageLoads, sourceRect>>

\* An awaited loadFont rejects: composeImage rejects.
FontLoadRejects ==
  /\ composePc = "loadFont"
  /\ ops' = Append(ops, Op("failed", "font", 0))
  /\ composePc' = "rejected"
  /\ UNCHANGED <<mainImage, wrappedLines, highlightPhrases, imageLoads, sourceRect>>

\* canvas.toDataURL resolves: composeImage returns the encoded image.
EncodeResolves ==
  /\ composePc = "encoding"
  /\ composePc' = "returned"
  /\ UNCHANGED <<mainImage, wrappedLines, highlightPhrases, imageLoads, ops,
                 sourceRect>>

\* canvas.toDataURL rejects.
EncodeRejects ==
  /\ composePc = "encoding"
  /\ ops' = Append(ops, Op("failed", "toDataURL", 0))
  /\ composePc' = "rejected"
  /\ UNCHANGED <<mainImage, wrappedLines, highlightPhrases, imageLoads, sourceRect>>

ComposeStep ==
  \/ \E name \in ImageNames : ImageLoadResolves(name)
  \/ \E name \in ImageNames : ImageLoadRejects(name)
  \/ FontLoadResolves
  \/ FontLoadRejects
  \/ EncodeResolves
  \/ EncodeRejects

(***************************************************************************)
(* updateTask on its own: one call of the helper of either orchestrator on *)
(* some task list, for the id of a task or for an id that no task has.     *)
(***************************************************************************)
\* A record of the task list as a run can leave it.
TaskVariants(i) ==
  LET base == [id |-> NEWS_CATEGORIES[i].apiValue,
               categoryName |-> NEWS_CATEGORIES[i].name,
               status |-> TaskStatus.PENDING]
  IN {base,
      Spread(base, [status |-> TaskStatus.GATHERED]),
      Spread(base, [status |-> TaskStatus.SENDING_WEBHOOK]),
      Spread(base, ErrorUpdates(<<"Failed to fetch news">>))}

TaskLists ==
  {ts \in [1..NumCategories -> UNION {TaskVariants(i) : i \in 1..NumCategories}] :
     \A i \in 1..NumCategories : ts[i] \in TaskVariants(i)}

UpdateIds == TaskIds \cup {"unknown"}

UpdateSets ==
  {[status |-> TaskStatus.GATHERING],
   ErrorUpdates(<<"Failed to upload image">>),
   [status |-> TaskStatus.DONE,
    result |-> [headline |-> "headline", imageUrl |-> "https://res.cloudinary.com/image",
                caption |-> "caption", sourceUrl |-> LinkNames[1],
                sourceName |-> "source"]]}

UpdateInit ==
  /\ pc = "updateTask"
  /\ tasks \in TaskLists
  /\ stream = <<>>
  /\ closed = FALSE
  /\ usedArticleLinks = {}
  /\ collectedData = <<>>
  /\ catIdx = 1
  /\ dataIdx = 1
  /\ allArticles = NoArticles
  /\ unusedArticles = NoArticles
  /\ imageSrcToCompose = NoImage
  /\ imageUrl = NoImage
  /\ ownImageLoad = [id \in TaskIds |-> "untried"]
  /\ calls = <<>>

\* The handler's updateTask(taskId, updates).
UpdateTaskCalled(taskId, updates) ==
  /\ pc = "updateTask"
  /\ LET u == UpdateTask(tasks, stream, taskId, updates)
     IN tasks' = u.tasks /\ stream' = u.stream
  /\ pc' = "updated"

\* The in-browser orchestrator's updateTask(taskId, updates).
AppUpdateTaskCalled(taskId, updates) ==
  /\ pc = "updateTask"
  /\ tasks' = AppUpdateTask(tasks, taskId, updates)
  /\ stream' = stream
  /\ pc' = "updated"

UpdateStep ==
  \/ \E taskId \in UpdateIds, updates \in UpdateSets : UpdateTaskCalled(taskId, updates)
  \/ \E taskId \in UpdateIds, updates \in UpdateSets : AppUpdateTaskCalled(taskId, updates)

(***************************************************************************)
(* Specifications.                                                         *)
(***************************************************************************)
AppIdle == fanOut = <<>>

NotCancelled == cancelled = FALSE

Idle ==
  /\ MergeIdle /\ FitIdle /\ ScanIdle /\ AppIdle /\ NotCancelled /\ ParseIdle
  /\ ComposeIdle

Init == HandlerInit /\ ClientInit /\ Idle

\* A run of the handler.
Next == HandlerStep /\ UNCHANGED <<clientVars, mergeVars, fitVars, scanVars, appVars, cancelVars, parseVars, composeVars>>

Spec == Init /\ [][Next]_vars

\* Every external call settles and the handler's continuation then runs.
FairSpec == Spec /\ WF_vars(Next)

\* A run of the client on some response.
ClientNext == ClientStep /\ UNCHANGED <<serverVars, mergeVars, fitVars, scanVars, appVars, cancelVars, parseVars, composeVars>>

ClientSpec == Init /\ [][ClientNext]_vars

\* The merge on some fetched results.
MergeNext == MergeStep /\ UNCHANGED <<serverVars, clientVars, fitVars, scanVars, appVars, cancelVars, parseVars, composeVars>>

MergeSpecInit ==
  /\ HandlerInit /\ ClientInit /\ MergeInit /\ FitIdle
  /\ ScanIdle /\ AppIdle /\ NotCancelled /\ ParseIdle /\ ComposeIdle

MergeSpec == MergeSpecInit /\ [][MergeNext]_vars

\* composeImage fitting some headline; the loop's steps are synchronous code.
FitNext == FitStep /\ UNCHANGED <<serverVars, clientVars, mergeVars, scanVars, appVars, cancelVars, parseVars, composeVars>>

FitSpecInit ==
  /\ HandlerInit /\ ClientInit /\ MergeIdle /\ FitInit
  /\ ScanIdle /\ AppIdle /\ NotCancelled /\ ParseIdle /\ ComposeIdle

FitSpec == FitSpecInit /\ [][FitNext]_vars

FairFitSpec == FitSpec /\ WF_vars(FitNext)

\* The scan of some line for some phrase.
ScanNext == ScanStep /\ UNCHANGED <<serverVars, clientVars, mergeVars, fitVars, appVars, cancelVars, parseVars, composeVars>>

ScanSpecInit ==
  /\ HandlerInit /\ ClientInit /\ MergeIdle /\ FitIdle
  /\ ScanInit /\ AppIdle /\ NotCancelled /\ ParseIdle /\ ComposeIdle

ScanSpec == ScanSpecInit /\ [][ScanNext]_vars

\* The scan of some line for any phrase, the empty one included.
AnyPhraseStep == Len(rects) < MaxRects /\ ScanIteration

AnyPhraseNext == AnyPhraseStep /\ UNCHANGED <<serverVars, clientVars, mergeVars, fitVars, appVars, cancelVars, parseVars, composeVars>>

AnyPhraseSpecInit ==
  /\ HandlerInit /\ ClientInit /\ MergeIdle /\ FitIdle
  /\ AnyPhraseInit /\ AppIdle /\ NotCancelled /\ ParseIdle /\ ComposeIdle

AnyPhraseSpec == AnyPhraseSpecInit /\ [][AnyPhraseNext]_vars

\* The loop is synchronous code: its next iteration runs.
FairAnyPhraseSpec == AnyPhraseSpec /\ WF_vars(AnyPhraseNext)

\* A run of the in-browser orchestrator.
AppNext ==
  AppStep /\ UNCHANGED <<appUntouched, mergeVars, fitVars, scanVars, cancelVars, parseVars, composeVars>>

AppSpecInit == AppInit /\ ClientInit /\ Idle

AppSpec == AppSpecInit /\ [][AppNext]_vars

\* A run of either orchestrator.
OrchestratorNext == Next \/ AppNext

OrchestratorInit == (HandlerInit \/ AppInit) /\ ClientInit /\ Idle

OrchestratorSpec == OrchestratorInit /\ [][OrchestratorNext]_vars

\* A run of the handler whose caller may disconnect at any point.
CancelNext ==
  CancellableStep /\ UNCHANGED <<clientVars, mergeVars, fitVars, scanVars, appVars, parseVars, composeVars>>

CancelSpec == Init /\ [][CancelNext]_vars

\* parseAnalysisResponse on some response text.
ParseNext ==
  ParseStep /\ UNCHANGED <<serverVars, clientVars, mergeVars, fitVars, scanVars, appVars,
                          cancelVars, composeVars>>

ParseSpecInit ==
  /\ HandlerInit /\ ClientInit /\ MergeIdle /\ FitIdle
  /\ ScanIdle /\ AppIdle /\ NotCancelled /\ ParseInit /\ ComposeIdle

ParseSpec == ParseSpecInit /\ [][ParseNext]_vars

\* A call of composeImage.
ComposeNext ==
  ComposeStep /\ UNCHANGED <<serverVars, clientVars, mergeVars, fitVars, scanVars, appVars,
                            cancelVars, parseVars>>

ComposeSpecInit ==
  /\ HandlerInit /\ ClientInit /\ MergeIdle /\ FitIdle
  /\ ScanIdle /\ AppIdle /\ NotCancelled /\ ParseIdle /\ ComposeInit

ComposeSpec == ComposeSpecInit /\ [][ComposeNext]_vars

\* One call of updateTask.
UpdateNext ==
  /\ UpdateStep
  /\ UNCHANGED <<closed, usedArticleLinks, collectedData, catIdx, dataIdx, gatherLocals,
                 processLocals, ownImageLoad, calls>>
  /\ UNCHANGED <<clientVars, mergeVars, fitVars, scanVars, appVars, cancelVars, parseVars,
                 composeVars>>

UpdateSpecInit == UpdateInit /\ ClientInit /\ Idle

UpdateSpec == UpdateSpecInit /\ [][UpdateNext]_vars

(***************************************************************************)
(* A run end to end: the client sends the request, the handler runs and    *)
(* enqueues chunks on the response stream, and the client reads them.  The *)
(* client keeps up with the handler: what was enqueued has been read       *)
(* before the handler's next continuation runs.  A read delivers all that  *)
(* has arrived, or three bytes less, which parts the two bytes of a        *)
(* character.                                                              *)
(***************************************************************************)
RECURSIVE Concat(_)
Concat(chunks) ==
  IF chunks = <<>> THEN <<>> ELSE Head(chunks) \o Concat(Tail(chunks))

\* Every byte enqueued so far was handed to the reader and its lines were
\* worked off.
CaughtUp ==
  /\ cpc = "read"
  /\ wire = <<>>
  /\ Len(delivered) = Len(Concat(stream))

\* The handler returns the Response; its stream has no chunk yet.
NoBody == <<>>

\* The enqueued chunks reach the reader.
ChunksArrive ==
  /\ cpc = "read"
  /\ wire = <<>>
  /\ Len(delivered) < Len(Concat(stream))
  /\ wire' = SubSeq(Concat(stream), Len(delivered) + 1, Len(Concat(stream)))
  /\ UNCHANGED <<cpc, clientTasks, completedCount, isProcessing, delivered,
                 decoderPending, buffer, lines, applied>>

ReadSizes == {Len(wire)} \cup {n \in {Len(wire) - 3} : n > 0}

RunInit == HandlerInit /\ ClientInit /\ Idle

RunStep ==
  \/ ClientStart /\ UNCHANGED serverVars
  \/ ResponseFails /\ UNCHANGED serverVars
  \/ ResponseArrives(NoBody) /\ UNCHANGED serverVars
  \/ CaughtUp /\ HandlerStep /\ UNCHANGED clientVars
  \/ ChunksArrive /\ UNCHANGED serverVars
  \/ (\E n \in ReadSizes : ReadChunk(n)) /\ UNCHANGED serverVars
  \/ HandleLine /\ UNCHANGED serverVars
  \/ LinesDone /\ UNCHANGED serverVars
  \/ closed /\ CaughtUp /\ ReadDone /\ UNCHANGED serverVars
  \/ ReadThrows /\ UNCHANGED serverVars

RunNext == RunStep /\ UNCHANGED <<mergeVars, fitVars, scanVars, appVars, cancelVars, parseVars, composeVars>>

RunSpec == RunInit /\ [][RunNext]_vars

(***************************************************************************)
(* Reading the state for the properties below.                             *)
(***************************************************************************)
Terminal == {TaskStatus.DONE, TaskStatus.ERROR}

\* The record a reader gets from one enqueued chunk (one line).
RecordOf(chunk) == JSONParse(Split(StreamDecode(<<>>, chunk).chars)[1]).value

StreamRecords == [i \in 1..Len(stream) |-> RecordOf(stream[i])]

RECURSIVE SelectStatuses(_, _)
SelectStatuses(records, id) ==
  IF records = <<>> THEN <<>>
  ELSE (IF Head(records).id = id THEN <<Head(records).status>> ELSE <<>>)
       \o SelectStatuses(Tail(records), id)

\* The statuses emitted for a task, in order.
StatusesOf(id) == SelectStatuses(StreamRecords, id)

IsPrefix(s, t) == Len(s) <= Len(t) /\ SubSeq(t, 1, Len(s)) = s

Phase2Statuses ==
  {TaskStatus.PROCESSING, TaskStatus.GENERATING_IMAGE, TaskStatus.COMPOSING,
   TaskStatus.UPLOADING, TaskStatus.SENDING_WEBHOOK, TaskStatus.DONE}

\* Phase 2 has emitted an update: an item is in work or one was finished.
Phase2Started ==
  dataIdx > 1 \/ \E i \in 1..Len(tasks) : tasks[i].status \in Phase2Statuses

ActiveStatuses ==
  {TaskStatus.GATHERING, TaskStatus.PROCESSING, TaskStatus.GENERATING_IMAGE,
   TaskStatus.COMPOSING, TaskStatus.UPLOADING, TaskStatus.SENDING_WEBHOOK}

ActiveTasks == {i \in 1..Len(tasks) : tasks[i].status \in ActiveStatuses}

\* The calls that have not settled yet, by position in the history.
Outstanding == {n \in 1..Len(calls) : calls[n].state = "pending"}

\* The fetches issued at once for the aggregate category.
FanOutCalls == {fanOut[i].call : i \in 1..Len(fanOut)}

\* The external collaborators: article fetch, analysis, image generation,
\* upload and webhook delivery.
Collaborators == {"fetch", "analysis", "generate", "upload", "webhook"}

\* The calls of a collaborator for a category key, by position in the history.
CallsOf(fn, key) == {n \in 1..Len(calls) : calls[n].fn = fn /\ calls[n].key = key}

CalledKeys == {calls[n].key : n \in 1..Len(calls)}

(***************************************************************************)
(* C1: in one run, whatever the analysis collaborator picks, no two        *)
(* collected (GATHERED) categories hold articles with the same link, and   *)
(* the set of used links is exactly the links collected so far.            *)
(***************************************************************************)
C1_NoSharedLink ==
  /\ \A i, j \in 1..Len(collectedData) :
       i < j => collectedData[j].article.link # collectedData[i].article.link
  /\ usedArticleLinks = {collectedData[i].article.link : i \in 1..Len(collectedData)}

\* The second category was offered the first one's article and took another.
C1_Witness ==
  /\ pc = "awaitDelay"
  /\ Len(collectedData) = 2
  /\ \E k \in 1..Len(allArticles) : allArticles[k].link = collectedData[1].article.link

(***************************************************************************)
(* C2: if every external call settles, the run closes the stream whatever  *)
(* fails on the way, and when the stream is closed every task is DONE or   *)
(* ERROR.                                                                  *)
(***************************************************************************)
AllTerminal ==
  /\ Len(tasks) = NumCategories
  /\ \A i \in 1..Len(tasks) : tasks[i].status \in Terminal

C2_RunClosesAllTerminal == <>closed /\ [](closed => AllTerminal)

\* A closed run in which one task ended DONE and another ERROR.
C2_Witness ==
  /\ closed
  /\ \E i, j \in 1..Len(tasks) :
       tasks[i].status = TaskStatus.DONE /\ tasks[j].status = TaskStatus.ERROR

(***************************************************************************)
(* C3: for every task the statuses emitted so far are a path of the status *)
(* machine: a prefix of PENDING, GATHERING, GATHERED, PROCESSING,          *)
(* (GENERATING_IMAGE,) COMPOSING, UPLOADING, SENDING_WEBHOOK, DONE,        *)
(* possibly ended by one ERROR entered from a non-terminal status; the     *)
(* task's recorded status is the last one emitted.                         *)
(***************************************************************************)
FullPath(generated) ==
  <<TaskStatus.PENDING, TaskStatus.GATHERING, TaskStatus.GATHERED, TaskStatus.PROCESSING>>
  \o (IF generated THEN <<TaskStatus.GENERATING_IMAGE>> ELSE <<>>)
  \o <<TaskStatus.COMPOSING, TaskStatus.UPLOADING, TaskStatus.SENDING_WEBHOOK,
       TaskStatus.DONE>>

ValidPath(s) ==
  \E generated \in BOOLEAN :
    \/ IsPrefix(s, FullPath(generated))
    \/ /\ Len(s) >= 2
       /\ s[Len(s)] = TaskStatus.ERROR
       /\ IsPrefix(SubSeq(s, 1, Len(s) - 1), FullPath(generated))
       /\ s[Len(s) - 1] # TaskStatus.DONE

C3_StatusPath ==
  pc # "start" =>
    \A i \in 1..Len(tasks) :
      LET s == StatusesOf(tasks[i].id)
      IN s # <<>> /\ ValidPath(s) /\ tasks[i].status = s[Len(s)]

\* One task went the whole way through GENERATING_IMAGE to DONE, another
\* was cut short by ERROR.
C3_Witness ==
  /\ \E i \in 1..Len(tasks) : StatusesOf(tasks[i].id) = FullPath(TRUE)
  /\ \E i \in 1..Len(tasks) :
       LET s == StatusesOf(tasks[i].id)
       IN Len(s) > 2 /\ s[Len(s)] = TaskStatus.ERROR

(***************************************************************************)
(* C4: in Phase 2, a task whose own article image could not be acquired    *)
(* (missing, or failing to load) is GENERATING_IMAGE before it is          *)
(* COMPOSING; a task whose article image loaded is never GENERATING_IMAGE. *)
(***************************************************************************)
Occurs(status, s) == \E k \in 1..Len(s) : s[k] = status

Precedes(a, b, s) == \E k, l \in 1..Len(s) : k < l /\ s[k] = a /\ s[l] = b

C4_GeneratedAfterFailedAcquisition ==
  \A id \in TaskIds :
    LET s == StatusesOf(id)
    IN /\ (ownImageLoad[id] \in {"missing", "failed"} /\ Occurs(TaskStatus.COMPOSING, s))
            => Precedes(TaskStatus.GENERATING_IMAGE, TaskStatus.COMPOSING, s)
       /\ ownImageLoad[id] = "loaded" => ~Occurs(TaskStatus.GENERATING_IMAGE, s)

(***************************************************************************)
(* C5: a record of the task list carries an error only when its status is  *)
(* ERROR and a result only when its status is DONE; none carries both.     *)
(***************************************************************************)
C5_ErrorResultByStatus ==
  \A i \in 1..Len(tasks) :
    /\ "error" \in DOMAIN tasks[i] => tasks[i].status = TaskStatus.ERROR
    /\ "result" \in DOMAIN tasks[i] => tasks[i].status = TaskStatus.DONE
    /\ ~("error" \in DOMAIN tasks[i] /\ "result" \in DOMAIN tasks[i])

\* One record carries a result, another an error.
C5_Witness ==
  \E i, j \in 1..Len(tasks) :
    "result" \in DOMAIN tasks[i] /\ "error" \in DOMAIN tasks[j]

(***************************************************************************)
(* C6: once a task's record is DONE or ERROR, no step changes the record   *)
(* or emits a further line for its id; tasks that ended ERROR in Phase 1   *)
(* are not among the items of Phase 2.                                     *)
(***************************************************************************)
NewRecords == [k \in 1..(Len(stream') - Len(stream)) |-> RecordOf(stream'[Len(stream) + k])]

C6_TerminalIsFinal ==
  [][\A i \in 1..Len(tasks) :
       tasks[i].status \in Terminal =>
         /\ tasks'[i] = tasks[i]
         /\ \A k \in 1..Len(NewRecords) : NewRecords[k].id # tasks[i].id
         /\ (pc' \in {"acquire", "awaitGenerate", "compose", "awaitCompose",
                      "awaitUpload", "awaitWebhook"}
               => collectedData'[dataIdx'].taskId # tasks[i].id)]_vars

\* Phase 2 works on an item while a task that failed in Phase 1 stays ERROR.
C6_Witness ==
  /\ pc = "awaitCompose"
  /\ \E i \in 1..Len(tasks) :
       /\ tasks[i].status = TaskStatus.ERROR
       /\ \A k \in 1..Len(collectedData) : collectedData[k].taskId # tasks[i].id

(***************************************************************************)
(* C10: the stream starts with one PENDING snapshot per category in        *)
(* configuration order; after that every step that changes the task list   *)
(* changes one record and appends exactly one line, the snapshot of that   *)
(* record after the change, and no line is appended otherwise; the stream  *)
(* is closed only when both phases have finished.                          *)
(***************************************************************************)
C10_EveryMutationEmitted ==
  /\ [](pc # "start" =>
          /\ Len(stream) >= NumCategories
          /\ \A i \in 1..NumCategories : RecordOf(stream[i]) = InitialTasks[i])
  /\ [][pc # "start" =>
          IF tasks' # tasks
          THEN /\ Len(tasks') = Len(tasks)
               /\ Len(stream') = Len(stream) + 1
               /\ SubSeq(stream', 1, Len(stream)) = stream
               /\ \E i \in 1..Len(tasks) :
                    /\ \A j \in 1..Len(tasks) : j # i => tasks'[j] = tasks[j]
                    /\ RecordOf(stream'[Len(stream')]) = tasks'[i]
          ELSE stream' = stream]_vars
  /\ [](closed => /\ pc = "done"
                  /\ catIdx > NumCategories
                  /\ dataIdx > Len(collectedData))

\* A closed stream that holds the initial snapshots and later mutations, the
\* last of them a DONE snapshot with its result.
C10_Witness ==
  /\ closed
  /\ Len(stream) > NumCategories
  /\ "result" \in DOMAIN RecordOf(stream[Len(stream)])

(***************************************************************************)
(* Reading the client's state: the complete lines of a byte sequence       *)
(* decoded and split in one piece, and the updates a list of lines yields. *)
(***************************************************************************)
CompleteLines(bytes) ==
  LET pieces == Split(StreamDecode(<<>>, bytes).chars)
  IN SubSeq(pieces, 1, Len(pieces) - 1)

Parses(line) == Trim(line) # <<>> /\ JSONParse(line).ok

RECURSIVE UpdatesOf(_)
UpdatesOf(ls) ==
  IF ls = <<>> THEN <<>>
  ELSE IF Parses(Head(ls)) THEN <<JSONParse(Head(ls)).value>> \o UpdatesOf(Tail(ls))
  ELSE UpdatesOf(Tail(ls))

(***************************************************************************)
(* C7: in the client, a DONE update applied to a task already recorded as  *)
(* DONE leaves completedCount as it was; a step that moves a task from a   *)
(* status other than DONE to DONE raises completedCount by exactly one.    *)
(***************************************************************************)
C7_CountedOncePerTask ==
  [][/\ \A i \in 1..Len(clientTasks) :
          (/\ applied' # applied
           /\ applied'[Len(applied')].id = clientTasks[i].id
           /\ applied'[Len(applied')].status = TaskStatus.DONE
           /\ clientTasks[i].status = TaskStatus.DONE)
            => completedCount' = completedCount
     /\ (\E i \in 1..Len(clientTasks) :
           /\ clientTasks[i].status # TaskStatus.DONE
           /\ clientTasks'[i].status = TaskStatus.DONE)
          => completedCount' = completedCount + 1]_vars

\* The same task received DONE twice and was counted once.
C7_Witness ==
  /\ Len(applied) = 2
  /\ applied[1].id = NEWS_CATEGORIES[1].apiValue
  /\ applied[2].id = NEWS_CATEGORIES[1].apiValue
  /\ applied[1].status = TaskStatus.DONE
  /\ applied[2].status = TaskStatus.DONE
  /\ completedCount = 1

(***************************************************************************)
(* C8: however the bytes of the response are cut into chunks, the lines    *)
(* the reader holds are complete lines of the bytes read so far, the       *)
(* buffer is the unfinished rest, and the updates applied, followed by     *)
(* those of the lines still to be handled, are the updates of the complete *)
(* lines of the bytes read so far taken in one piece, in the same order.   *)
(***************************************************************************)
C8_ChunkingInvisible ==
  LET pieces == Split(StreamDecode(<<>>, delivered).chars)
      whole == CompleteLines(delivered)
  IN /\ Len(lines) <= Len(whole)
     /\ lines = SubSeq(whole, Len(whole) - Len(lines) + 1, Len(whole))
     /\ buffer = pieces[Len(pieces)]
     /\ applied \o UpdatesOf(lines) = UpdatesOf(whole)
     /\ (cpc = "finished" /\ wire = <<>>) => applied = UpdatesOf(whole)

\* A chunk ended inside a character of a line that follows an applied one.
C8_Witness ==
  /\ decoderPending # <<>>
  /\ buffer # <<>>
  /\ Len(applied) >= 1
  /\ lines = <<>>

(***************************************************************************)
(* C9: when a line fails to parse, the step that handles it leaves the     *)
(* task list and completedCount unchanged and goes on with the next line;  *)
(* the lines after it, in the same chunk and in later ones, are applied.   *)
(***************************************************************************)
FailsToParse(line) == Trim(line) # <<>> /\ ~JSONParse(line).ok

C9_ParseFailureSkipsLine ==
  /\ [][(cpc = "lines" /\ lines # <<>> /\ FailsToParse(Head(lines)))
          => /\ clientTasks' = clientTasks
             /\ completedCount' = completedCount
             /\ applied' = applied
             /\ lines' = Tail(lines)
             /\ cpc' = cpc
             /\ <<wire, buffer, decoderPending>>' = <<wire, buffer, decoderPending>>]_vars
  /\ [](LET whole == CompleteLines(delivered)
         IN \A j, k \in 1..Len(whole) :
              (j < k /\ FailsToParse(whole[j]) /\ Parses(whole[k]) /\ cpc = "read")
                => \E a \in 1..Len(applied) : applied[a] = JSONParse(whole[k]).value)

\* The first line failed to parse and the line after it was applied.
C9_Witness ==
  LET whole == CompleteLines(delivered)
  IN /\ Len(whole) = 2
     /\ FailsToParse(whole[1])
     /\ Len(applied) = 1
     /\ applied[1] = JSONParse(whole[2]).value

(***************************************************************************)
(* C11: deduplication by link keeps, for each link of the merged list, the *)
(* article of its first occurrence (with that occurrence's pubDate), drops *)
(* the later ones, and each link is in the result exactly once.            *)
(***************************************************************************)
FirstWithLink(articles, link) ==
  articles[CHOOSE i \in 1..Len(articles) :
             /\ articles[i].link = link
             /\ \A j \in 1..(i - 1) : articles[j].link # link]

C11_FirstOccurrenceKept ==
  mergePc = "done" =>
    /\ \A i, j \in 1..Len(uniqueArticles) :
         i # j => uniqueArticles[i].link # uniqueArticles[j].link
    /\ {uniqueArticles[i].link : i \in 1..Len(uniqueArticles)}
         = {articlesFromAllCategories[i].link : i \in 1..Len(articlesFromAllCategories)}
    /\ \A i \in 1..Len(uniqueArticles) :
         uniqueArticles[i]
           = FirstWithLink(articlesFromAllCategories, uniqueArticles[i].link)

(***************************************************************************)
(* C12: the font-fit loop ends, the font size only ever goes down in steps *)
(* of 4 from 72, and it is never below the floor of 20.                    *)
(***************************************************************************)
C12_FontFitTerminates ==
  /\ <>(fitPc = "draw")
  /\ [](fontSize \in {MaxFontSize - FontStep * k : k \in 0..13} /\ fontSize >= MinFontSize)
  /\ [][fontSize' # fontSize => fontSize' = fontSize - FontStep]_vars

\* A headline that fits at no size: the loop ended at the floor.
C12_Witness == fitPc = "draw" /\ fontSize = MinFontSize

(***************************************************************************)
(* C13: a wrapped line of more than one word measures at most the bounding *)
(* width; a line that measures more is a single word.                      *)
(***************************************************************************)
C13_LinesWithinWidth ==
  headlineLines # <<>> =>
    \A i \in 1..Len(headlineLines) :
      /\ Len(headlineLines[i]) > 1 => MeasureText(headlineLines[i], ctxFont) <= 4 * MaxTextWidth
      /\ MeasureText(headlineLines[i], ctxFont) > 4 * MaxTextWidth => Len(headlineLines[i]) = 1

\* A wrap with a line of several words and a line of one word wider than the box.
C13_Witness ==
  /\ headlineLines # <<>>
  /\ \E i \in 1..Len(headlineLines) : Len(headlineLines[i]) > 1 /\ SumWidths(headlineLines[i]) > 40
  /\ \E i \in 1..Len(headlineLines) : MeasureText(headlineLines[i], ctxFont) > 4 * MaxTextWidth

(***************************************************************************)
(* C14: for a non-empty phrase, the scan draws one rectangle at every      *)
(* index where the lower-cased line holds the lower-cased phrase,          *)
(* occurrences overlapping an earlier one included, and none elsewhere.    *)
(***************************************************************************)
Occurrences ==
  {k \in 0..Len(lineText) :
     /\ k + Len(phrase) <= Len(lineText)
     /\ \A d \in 1..Len(phrase) : LowerChar(lineText[k + d]) = LowerChar(phrase[d])}

C14_EveryOccurrenceOnce ==
  /\ \A i, j \in 1..Len(rects) : i < j => rects[i].start < rects[j].start
  /\ {rects[i].start : i \in 1..Len(rects)} = {k \in Occurrences : k < searchFromIndex}
  /\ scanPc = "done" => {rects[i].start : i \in 1..Len(rects)} = Occurrences

\* Two rectangles for occurrences that overlap, found regardless of case.
C14_Witness ==
  /\ scanPc = "done"
  /\ \E i, j \in 1..Len(rects) :
       /\ rects[i].start < rects[j].start
       /\ rects[j].start < rects[i].start + Len(phrase)
  /\ \E i \in 1..Len(rects) : rects[i].text # phrase

\* C20: when the analysis returns null for a category, its task becomes ERROR
\* with the message that no relevant article was found, the Used-Link Set and
\* the collected list stay as they were, and Phase 1 goes on with the next
\* category.
C20_NullIsOrdinaryFailure ==
  [][\A response \in Responses :
       (/\ pc = "awaitAnalysis"
        /\ FindAndAnalyzeBestArticleFromList(unusedArticles, response).kind = "null"
        /\ AnalysisReturns(response))
       => /\ tasks'[catIdx].status = TaskStatus.ERROR
          /\ "error" \in DOMAIN tasks'[catIdx]
          /\ tasks'[catIdx].error = NoRelevantArticle(Category.name)
          /\ \A i \in 1..Len(tasks) : i # catIdx => tasks'[i] = tasks[i]
          /\ usedArticleLinks' = usedArticleLinks
          /\ collectedData' = collectedData
          /\ pc' = "gather"
          /\ catIdx' = catIdx + 1]_vars

C20_Witness ==
  \E i \in 1..(Len(tasks) - 1) :
    /\ tasks[i].status = TaskStatus.ERROR
    /\ tasks[i].error = NoRelevantArticle(tasks[i].categoryName)
    /\ tasks[i + 1].status = TaskStatus.GATHERING

\* C15: while any task is PENDING or GATHERING no task has been moved to
\* PROCESSING or a later Phase-2 status; at the step that emits the first
\* Phase-2 update every task has ended Phase 1 as GATHERED or ERROR, and from
\* that step on the Used-Link Set does not change.
C15_GatherBeforeProcess ==
  /\ [](Phase2Started =>
          \A i \in 1..Len(tasks) :
            tasks[i].status \notin {TaskStatus.PENDING, TaskStatus.GATHERING})
  /\ [][Phase2Started' =>
          /\ usedArticleLinks' = usedArticleLinks
          /\ ~Phase2Started =>
               \A i \in 1..Len(tasks) :
                 tasks[i].status \in {TaskStatus.GATHERED, TaskStatus.ERROR}]_vars

C15_Witness ==
  /\ \E i \in 1..Len(tasks) : tasks[i].status = TaskStatus.PROCESSING
  /\ \E i \in 1..Len(tasks) : tasks[i].status = TaskStatus.ERROR
  /\ \E i \in 1..Len(tasks) : tasks[i].status = TaskStatus.GATHERED
  /\ usedArticleLinks # {}

C18_OncePerKey ==
  \A fn \in Collaborators, key \in CalledKeys : Cardinality(CallsOf(fn, key)) <= 1

\* C18 (amended): in one run each external collaborator is invoked at most
\* once per category key, not counting the fetches of the aggregate
\* category's fan-out, which fetches every other category at most once
\* more; only the article fetch is ever invoked twice for a key, and no call
\* is issued again because it failed.
C18_OncePerKeyBesidesFanOut ==
  \A fn \in Collaborators, key \in CalledKeys :
    /\ Cardinality(CallsOf(fn, key) \ FanOutCalls) <= 1
    /\ Cardinality(CallsOf(fn, key) \cap FanOutCalls) <= 1
    /\ CallsOf(fn, key) \cap FanOutCalls # {} => fn = "fetch" /\ key # "top"

C18_Witness ==
  \E key \in CalledKeys :
    /\ Cardinality(CallsOf("fetch", key)) = 2
    /\ \E n \in CallsOf("fetch", key) : calls[n].state = "rejected"
    /\ \E other \in CalledKeys : CallsOf("webhook", other) # {}

\* C17: when the caller has disconnected (the response stream was cancelled)
\* the run is not aborted with a category left short of a terminal status:
\* no push to the disconnected channel stops the run or skips a category.
C17_DisconnectDoesNotAbort ==
  cancelled => (pc # "aborted" \/ AllTerminal)

\* A NewsAnalysis with every field filled.
Complete(a) ==
  /\ DOMAIN a = {"headline", "caption", "imagePrompt", "sourceName", "highlightPhrases"}
  /\ a.headline # <<>>
  /\ a.caption # <<>>
  /\ a.imagePrompt # <<>>
  /\ a.sourceName # <<>>
  /\ Len(a.highlightPhrases) > 0
  /\ \A i \in 1..Len(a.highlightPhrases) : a.highlightPhrases[i] # <<>>

\* C19: parsing a response either returns an analysis whose headline,
\* caption, imagePrompt and sourceName are non-empty and whose
\* highlightPhrases is a non-empty list of non-empty phrases, or throws; the
\* caller settles with a complete analysis or with an error, never with a
\* partly filled one.
C19_CompleteOrFails ==
  /\ parsePc = "returned" => parseResult.kind = "ok" /\ Complete(parseResult.analysis)
  /\ parsePc = "thrown" => parseResult = [kind |-> "throw"]
  /\ parsePc = "lines" => parseResult = <<>>

C19_Witness ==
  /\ parsePc = "returned"
  /\ Len(parseResult.analysis.highlightPhrases) = 2
  /\ parseResult.analysis.headline = <<CH>>

\* The position in collectedData of the item of a task.
ItemOf(id) == CHOOSE d \in 1..Len(collectedData) : collectedData[d].taskId = id

\* C21: a task whose webhook delivery failed after its upload succeeded is
\* ERROR with the failure message and carries no result, DONE was never
\* emitted for it, the rejected delivery is the last call made for it (its
\* upload is not undone, nothing is called again), and Phase 2 has gone on
\* to the items after it.
C21_WebhookFailureFailsTask ==
  \A n \in 1..Len(calls) :
    (calls[n].fn = "webhook" /\ calls[n].state = "rejected")
    => LET id == calls[n].key
           task == tasks[FindIndex(tasks, id)]
       IN /\ \E m \in 1..(n - 1) :
               calls[m] = [fn |-> "upload", key |-> id, state |-> "resolved"]
          /\ task.status = TaskStatus.ERROR
          /\ "error" \in DOMAIN task
          /\ task.error = <<"Failed to send webhook">>
          /\ "result" \notin DOMAIN task
          /\ ~Occurs(TaskStatus.DONE, StatusesOf(id))
          /\ \A m \in (n + 1)..Len(calls) : calls[m].key # id
          /\ \A m \in 1..Len(calls) : calls[m].fn \in Collaborators \cup {"compose"}
          /\ dataIdx > ItemOf(id)
          /\ pc = "done" =>
               \A d \in 1..Len(collectedData) :
                 Occurs(TaskStatus.PROCESSING, StatusesOf(collectedData[d].taskId))

C21_Witness ==
  /\ Len(collectedData) = 2
  /\ calls[Len(calls)].fn = "webhook"
  /\ calls[Len(calls)].state = "resolved"
  /\ \E n \in 1..Len(calls) :
       /\ calls[n] = [fn |-> "webhook", key |-> collectedData[1].taskId,
                      state |-> "rejected"]
  /\ tasks[FindIndex(tasks, collectedData[2].taskId)].status = TaskStatus.DONE

\* The task of the aggregate category has left PENDING.
AggregateBegun ==
  \E i \in 1..Len(tasks) :
    tasks[i].id = "top" /\ tasks[i].status # TaskStatus.PENDING

\* C22: the aggregate key 'top' itself is never fetched; once the aggregate
\* category is in work a fetch of every other configured category has been
\* issued for it; a fetch outside that fan-out is for the key of the
\* category in work; and when the fetches of the fan-out all resolve with
\* nothing, the aggregate category ends ERROR.
C22_AggregateFetchesOthers ==
  /\ [](/\ CallsOf("fetch", "top") = {}
        /\ AggregateBegun =>
             /\ {fanOut[j].key : j \in 1..Len(fanOut)}
                  = {tasks[k].id : k \in 1..Len(tasks)} \ {"top"}
             /\ \A j \in 1..Len(fanOut) :
                  /\ calls[fanOut[j].call].fn = "fetch"
                  /\ calls[fanOut[j].call].key = fanOut[j].key
        /\ \A n \in Outstanding \ FanOutCalls :
             calls[n].fn = "fetch" => calls[n].key = tasks[catIdx].id)
  /\ [][\A i \in 1..Len(fanOut), articles \in AppArticleLists :
          (/\ pc = "appAwaitAll"
           /\ AppFanOutResolves(i, articles)
           /\ \A j \in 1..Len(fanOut') : fanOut'[j].state = "resolved"
           /\ articles = <<>>
           /\ \A j \in 1..Len(fanOut) : fanOut[j].articles = <<>>)
          => /\ tasks'[catIdx].id = "top"
             /\ tasks'[catIdx].status = TaskStatus.ERROR
             /\ tasks'[catIdx].error = NoTrendingArticles]_vars

\* C23: the candidate list of the aggregate category has at most 10
\* articles, and of any two of its articles that both carry a publish
\* timestamp the one with the later timestamp comes first, whether or not
\* other merged articles carry a timestamp.
C23_NewestFirst ==
  mergePc = "done" =>
    /\ Len(trendingArticles) <= TrendingLimit
    /\ \A i, j \in 1..Len(trendingArticles) :
         (/\ i < j
          /\ HasPubDate(trendingArticles[i])
          /\ HasPubDate(trendingArticles[j]))
         => trendingArticles[i].pubDate >= trendingArticles[j].pubDate

\* The orchestrator is suspended on the timer of the rate-limit delay.
WaitingDelay == pc \in {"awaitDelay", "appAwaitDelay"}

\* C24: with a positive delay configured, Phase 1 goes from a category to
\* the next one only out of the timer wait, whether the earlier category
\* ended GATHERED or ERROR; with a delay of zero it never waits on the timer.
C24_DelayBetweenCategories ==
  [][/\ (/\ API_FETCH_DELAY_MS > 0
         /\ catIdx' = catIdx + 1
         /\ catIdx < Len(tasks))
        => WaitingDelay
     /\ API_FETCH_DELAY_MS = 0 => ~WaitingDelay']_vars

\* The sizes the loop wraps the headline at: from 72 down, above the floor.
TriedSizes ==
  {s \in MinFontSize..MaxFontSize : s > MinFontSize /\ (MaxFontSize - s) % FontStep = 0}

\* The headline wrapped at a size fits the bounding height.
FitsAt(size) ==
  Len(CalculateLines(size, headline, MaxTextWidth)) * LineHeightOf(size)
    <= MaxTextHeight * 10

\* C25: when the headline fits at no tried size, the loop still ends and the
\* headline is drawn at the floor size: the font size, the font the drawn
\* lines were wrapped with (and are measured and drawn with) and the line
\* height are those of the size 20.
C25_DrawnAtFloor ==
  (fitPc = "draw" /\ \A s \in TriedSizes : ~FitsAt(s))
  => /\ fontSize = MinFontSize
     /\ ctxFont = MinFontSize
     /\ lineHeight = LineHeightOf(MinFontSize)
     /\ headlineLines = CalculateLines(MinFontSize, headline, MaxTextWidth)

\* The calls that draw on the canvas or encode it, in the order issued.
DrawOps ==
  SelectSeq(ops, LAMBDA o : o.op \in {"fillRect", "drawImage", "fillText", "toDataURL"})

\* The place of a drawing call among the layers of the composite.
Layer(o) ==
  CASE o = Op("fillRect", "background", 0) -> 1
    [] o = Op("drawImage", "mainImage", 0) -> 2
    [] o = Op("fillRect", "separator", 0) -> 3
    [] o.what \in {"highlight", "headline"} -> 4
    [] o = Op("drawImage", "overlayImage", 0) -> 5
    [] o = Op("drawImage", "logoImage", 0) -> 6
    [] o = Op("fillText", "brand", 0) -> 7
    [] o = Op("toDataURL", "canvas", 0) -> 8

\* C26: the drawing calls come in the order background, source image,
\* separator, headline, overlay, logo, brand text, encoding, each of the
\* others once; within the headline the lines come in order and nothing of a
\* line, in particular none of its highlight rectangles, is drawn after that
\* line's text; when the canvas is encoded every layer and every line's text
\* has been drawn.
C26_DrawingOrder ==
  /\ \A p, q \in 1..Len(DrawOps) :
       p < q =>
         /\ Layer(DrawOps[p]) <= Layer(DrawOps[q])
         /\ Layer(DrawOps[p]) = Layer(DrawOps[q]) =>
              /\ Layer(DrawOps[p]) = 4
              /\ DrawOps[p].line <= DrawOps[q].line
              /\ DrawOps[p].line = DrawOps[q].line => DrawOps[p].op = "fillRect"
  /\ composePc \in {"encoding", "returned"} =>
       /\ {Layer(DrawOps[p]) : p \in 1..Len(DrawOps)} = 1..8
       /\ \A i \in 1..Len(wrappedLines) :
            \E p \in 1..Len(DrawOps) : DrawOps[p] = Op("fillText", "headline", i)

C26_Witness ==
  /\ composePc = "returned"
  /\ Len(wrappedLines) = 2
  /\ Len(SelectSeq(DrawOps, LAMBDA o : o = Op("fillRect", "highlight", 1))) >= 2
  /\ Len(SelectSeq(DrawOps, LAMBDA o : o = Op("fillRect", "highlight", 2))) >= 1

\* C27: when the load of an image or of a font has failed, composeImage has
\* rejected and the canvas was not encoded; it returns an encoded image only
\* when nothing failed; every drawing call comes after the three images were
\* loaded, and every text measurement and text draw after the three fonts
\* were loaded.
C27_LoadsBeforeDrawing ==
  /\ (\E p \in 1..Len(ops) :
        ops[p].op = "failed" /\ ops[p].what \in ImageNames \cup {"font"})
     => /\ composePc = "rejected"
        /\ \A p \in 1..Len(ops) : ops[p].op # "toDataURL"
  /\ composePc = "returned" =>
       /\ \A p \in 1..Len(ops) : ops[p].op # "failed"
       /\ \A n \in ImageNames : imageLoads[n] = "resolved"
       /\ \E p \in 1..Len(ops) : ops[p].op = "toDataURL"
  /\ \A p \in 1..Len(ops) :
       /\ ops[p].op \in {"fillRect", "drawImage", "fillText"} =>
            \A n \in ImageNames : \E q \in 1..(p - 1) : ops[q] = Op("loaded", n, 0)
       /\ ops[p].op \in {"measureText", "fillText"} =>
            Len(SelectSeq(SubSeq(ops, 1, p - 1),
                          LAMBDA o : o = Op("loaded", "font", 0))) = FontCount

C27_Witness ==
  /\ composePc = "rejected"
  /\ imageLoads["mainImage"] = "resolved"
  /\ imageLoads["overlayImage"] = "rejected"
  /\ imageLoads["logoImage"] = "pending"
  /\ DrawOps = <<>>

\* C28: the source rectangle of the main image lies inside the image, is
\* centred on both axes (so centred on the cropped one), spans one axis in
\* full and has the proportions of the target region, 1080 : 756.
C28_CropInsideSource ==
  /\ (\E p \in 1..Len(ops) : ops[p] = Op("drawImage", "mainImage", 0))
       => sourceRect = Crop(mainImage) /\ sourceRect # NoRect
  /\ sourceRect # NoRect =>
       /\ sourceRect.sx >= 0
       /\ sourceRect.sy >= 0
       /\ sourceRect.sWidth > 0
       /\ sourceRect.sHeight > 0
       /\ sourceRect.sx + sourceRect.sWidth <= SubPixel * mainImage.width
       /\ sourceRect.sy + sourceRect.sHeight <= SubPixel * mainImage.height
       /\ 2 * sourceRect.sx + sourceRect.sWidth = SubPixel * mainImage.width
       /\ 2 * sourceRect.sy + sourceRect.sHeight = SubPixel * mainImage.height
       /\ \/ sourceRect.sx = 0 /\ sourceRect.sWidth = SubPixel * mainImage.width
          \/ sourceRect.sy = 0 /\ sourceRect.sHeight = SubPixel * mainImage.height
       /\ sourceRect.sWidth * ImageHeight = sourceRect.sHeight * CanvasSize

\* A wide image cropped on its sides, and drawn.
C28_Witness ==
  /\ composePc = "returned"
  /\ mainImage = [width |-> 9, height |-> 5]
  /\ sourceRect.sx > 0
  /\ sourceRect.sHeight = SubPixel * mainImage.height

\* C29: a call updateTask(taskId, updates) of either orchestrator keeps the
\* number and the order of the records, leaves every record with another id
\* as it was, gives the record with that id the fields of updates and keeps
\* its other fields; when no record has the id, the task list stays as it
\* was and nothing is emitted.
C29_UpdateTouchesOneRecord ==
  [][\A taskId \in UpdateIds, updates \in UpdateSets :
       (UpdateTaskCalled(taskId, updates) \/ AppUpdateTaskCalled(taskId, updates))
       => /\ Len(tasks') = Len(tasks)
          /\ \A i \in 1..Len(tasks) :
               /\ tasks'[i].id = tasks[i].id
               /\ tasks[i].id # taskId => tasks'[i] = tasks[i]
               /\ tasks[i].id = taskId =>
                    /\ DOMAIN tasks'[i] = DOMAIN tasks[i] \cup DOMAIN updates
                    /\ \A key \in DOMAIN updates : tasks'[i][key] = updates[key]
                    /\ \A key \in DOMAIN tasks[i] \ DOMAIN updates :
                         tasks'[i][key] = tasks[i][key]
          /\ (\A i \in 1..Len(tasks) : tasks[i].id # taskId)
               => tasks' = tasks /\ stream' = stream
          /\ Len(stream') <= Len(stream) + 1]_vars

\* The last task was made DONE by a call that emitted it; the first one
\* still carries the error it had.
C29_Witness ==
  /\ pc = "updated"
  /\ Len(stream) = 1
  /\ tasks[Len(tasks)].status = TaskStatus.DONE
  /\ "result" \in DOMAIN tasks[Len(tasks)]
  /\ tasks[1].status = TaskStatus.ERROR
  /\ tasks[1].error = <<"Failed to fetch news">>

\* The step made a task GATHERED.
NewlyGathered ==
  \E i \in 1..Len(tasks') :
    /\ tasks'[i].status = TaskStatus.GATHERED
    /\ i > Len(tasks) \/ tasks[i].status # TaskStatus.GATHERED

\* C30: the set of used links never loses a link, gains exactly one link it
\* did not hold in the step that makes a category GATHERED, stays as it was
\* in every other step (a category that fails, and every step of Phase 2),
\* and so always has as many links as the collected list has items.
C30_UsedLinksGrowWithCollected ==
  /\ [](Cardinality(usedArticleLinks) = Len(collectedData))
  /\ [][/\ usedArticleLinks \subseteq usedArticleLinks'
        /\ NewlyGathered => Cardinality(usedArticleLinks' \ usedArticleLinks) = 1
        /\ ~NewlyGathered => usedArticleLinks' = usedArticleLinks
        /\ Phase2Started => usedArticleLinks' = usedArticleLinks]_vars

\* Phase 2 has worked through the collected list; the set holds one link for
\* each collected item, and a category that failed in Phase 1 left none.
C30_Witness ==
  /\ dataIdx > Len(collectedData)
  /\ Len(collectedData) >= 1
  /\ Cardinality(usedArticleLinks) = Len(collectedData)
  /\ \E i \in 1..Len(tasks) :
       /\ tasks[i].status = TaskStatus.ERROR
       /\ \A d \in 1..Len(collectedData) : collectedData[d].taskId # tasks[i].id

(***************************************************************************)
(* The client's mirror of the task list.                                   *)
(***************************************************************************)
DoneIn(ts) == {i \in 1..Len(ts) : ts[i].status = TaskStatus.DONE}

\* Every record the handler enqueued was parsed and applied by the client.
AllLinesApplied == Len(applied) = Len(stream)

\* C31: when the client's read loop ends on done after the handler closed
\* the stream, and every enqueued line was parsed, the client's task list is
\* the handler's final task list, record for record, and completedCount is
\* the number of the handler's tasks that are DONE.
C31_ClientMirrorsServer ==
  [][(ReadDone /\ AllLinesApplied)
       => /\ clientTasks = tasks
          /\ completedCount = Cardinality(DoneIn(tasks))]_vars

\* A run read to its end in which one category finished and another failed.
C31_Witness ==
  /\ cpc = "finished"
  /\ closed
  /\ AllLinesApplied
  /\ clientTasks = tasks
  /\ completedCount = Cardinality(DoneIn(tasks))
  /\ DoneIn(tasks) # {}
  /\ \E i \in 1..Len(tasks) : tasks[i].status = TaskStatus.ERROR

\* C32: a record of the client's task list that is DONE carries its result
\* and no error, and in every later step of the run it is still DONE with
\* the same result and without an error, also when a read of the stream
\* fails.
C32_ClientDoneIsFinal ==
  [][\A i \in 1..Len(clientTasks) :
       clientTasks[i].status = TaskStatus.DONE
       => /\ "result" \in DOMAIN clientTasks[i]
          /\ "error" \notin DOMAIN clientTasks[i]
          /\ Len(clientTasks') = Len(clientTasks)
          /\ clientTasks'[i].status = TaskStatus.DONE
          /\ "result" \in DOMAIN clientTasks'[i]
          /\ clientTasks'[i].result = clientTasks[i].result
          /\ "error" \notin DOMAIN clientTasks'[i]]_vars

\* C33: in the client, whatever updates were received and however the run
\* went, completedCount is the number of records of the client's task list
\* that are DONE.
C33_CountIsDoneRecords == completedCount = Cardinality(DoneIn(clientTasks))

====
